---- MODULE Spec2Model ----
(***************************************************************************)
(* Harbour Hub marketplace backend: a state-machine model of the request   *)
(* handlers, model methods and background jobs of apps/accounts,           *)
(* apps/listings, apps/inquiries and apps/admin_panel.                     *)
(*                                                                         *)
(* The relational store is the state.  Every HTTP handler is one action    *)
(* (a request runs in autocommit, its statements in program order), except *)
(* where a property is about the interleaving of requests: there a request *)
(* is split into its store statements (see the listing retrieve clients).  *)
(* Each domain has its own specification over the shared variables; the    *)
(* variables of the other domains keep their initial value in it.          *)
(***************************************************************************)
EXTENDS Integers, Sequences, FiniteSets, TLC

VARIABLES
    users,      \* accounts.User rows: id -> [email, role, is_active, is_staff,
                \*   is_verified, password]
    listings,   \* listings.Listing rows: id -> record
    inquiries,  \* inquiries.Inquiry rows: id -> record
    replies,    \* inquiries.InquiryReply rows, in creation order
    reports,    \* admin_panel.ReportedContent rows: id -> record
    adminlog,   \* admin_panel.AdminActionLog rows, in creation order
    otps,       \* accounts.OneTimePassword rows, in creation order
    tokens,     \* accounts.PasswordResetToken rows, in creation order
    queue,      \* jobs handed to the broker with .delay(), in order
    now,        \* timezone.now()
    debug,      \* settings.DEBUG
    resp,       \* the response of the last request handled
    pc,         \* listing retrieve clients: position of each in the handler
    inst,       \* listing retrieve clients: the Listing instance held in memory
    images,     \* listings.ListingImage rows: id -> record
    categories, \* categories.Category rows: id -> record
    verifications, \* accounts.VerificationRequest rows: id -> record
    jobs,       \* the job worker: position in queue -> the state of that job
    txn         \* the request transaction that is open, with its pending rows

vars == <<users, listings, inquiries, replies, reports, adminlog, otps, tokens,
          queue, now, debug, resp, pc, inst,
        images, categories, verifications, jobs, txn>>

----------------------------------------------------------------------------
(* Bounds of the model. *)

MaxInquiries == 1
MaxReplies == 1
MaxReports == 2
MaxListings == 3
MaxRegistrations == 2
MaxOtps == 2
MaxTokens == 2
MaxTime == 3
MaxImages == 3
MaxCategories == 3
MaxVerifications == 2
NumClients == 3

----------------------------------------------------------------------------
(* Shared vocabulary. *)

\* A NULL column (read_at, replied_at, reviewed_at, reviewed_by, published_at ...).
NULL == 0

\* User.Role
BUYER == "buyer"
SELLER == "seller"
SERVICE_PROVIDER == "service_provider"
ADMIN == "admin"
SUPER_ADMIN == "super_admin"
Roles == {BUYER, SELLER, SERVICE_PROVIDER, ADMIN, SUPER_ADMIN}

\* User.is_admin_user
is_admin_user(u) == users[u].role \in {ADMIN, SUPER_ADMIN}

\* The next AutoField primary key of a table held as id -> row.
NextId(table) == Cardinality(DOMAIN table) + 1

\* The response of a request.  token is the reset token echoed in the body
\* (NULL when the body carries none).
Response(op, user, obj, status, body) ==
    [op |-> op, user |-> user, obj |-> obj, status |-> status, body |-> body,
     token |-> NULL]

NoResponse == Response("none", NULL, NULL, NULL, "")

\* task.delay(arg)
Job(task, arg) == [task |-> task, arg |-> arg]

\* The accounts the specifications start from: a buyer, two sellers and one
\* staff admin.
SeedUsers ==
    (1 :> [email |-> "a@x", role |-> BUYER, is_active |-> TRUE,
           is_staff |-> FALSE, is_verified |-> FALSE,
           password |-> "p1"]) @@
    (2 :> [email |-> "b@x", role |-> SELLER, is_active |-> TRUE,
           is_staff |-> FALSE, is_verified |-> FALSE,
           password |-> "p1"]) @@
    (3 :> [email |-> "c@x", role |-> SELLER, is_active |-> TRUE,
           is_staff |-> FALSE, is_verified |-> FALSE,
           password |-> "p1"]) @@
    (4 :> [email |-> "d@x", role |-> ADMIN, is_active |-> TRUE,
           is_staff |-> TRUE, is_verified |-> FALSE,
           password |-> "p1"])

\* Listing.Status
DRAFT == "draft"
PUBLISHED == "published"
ARCHIVED == "archived"
FLAGGED == "flagged"
SUSPENDED == "suspended"

\* Listing.Type
SELL == "sell"
RENT == "rent"
LEASE == "lease"
SERVICE == "service"
Types == {SELL, RENT, LEASE, SERVICE}

\* A Listing row with the model's column defaults.
NewListing(owner, listing_type, status, featured, expires_at) ==
    [user |-> owner, listing_type |-> listing_type, status |-> status,
     featured |-> featured, views_count |-> 0, inquiries_count |-> 0,
     published_at |-> NULL, expires_at |-> expires_at]

\* The listings the inquiry and report specifications start from: a published
\* listing of one seller and a draft of the other.
SeedListings ==
    (1 :> [NewListing(2, SELL, PUBLISHED, FALSE, NULL)
               EXCEPT !.published_at = 1]) @@
    (2 :> NewListing(3, SELL, DRAFT, FALSE, NULL))

\* The empty table.
Empty == <<>>

\* No request transaction is open.
NoTxn == [open |-> FALSE, pk |-> NULL, user |-> NULL, row |-> <<>>]

\* The clock advances.
Tick ==
    /\ now < MaxTime
    /\ now' = now + 1
    /\ UNCHANGED <<users, listings, inquiries, replies, reports, adminlog,
                   otps, tokens, queue, debug, resp, pc, inst,
        images, categories, verifications, jobs, txn>>

\* A retrieve client that holds no Listing instance.
NoInstance == [user |-> NULL, pk |-> NULL, status |-> "", views_count |-> 0]

----------------------------------------------------------------------------
(* apps/inquiries *)

\* Inquiry.Status
PENDING == "pending"
READ == "read"
REPLIED == "replied"
CLOSED == "closed"
SPAM == "spam"

\* Inquiry.is_read / Inquiry.is_replied
is_read(q) == q.read_at # NULL
is_replied(q) == q.replied_at # NULL

\* Inquiry.mark_as_read: the row after the call.
mark_as_read(q) ==
    IF ~is_read(q)
    THEN [q EXCEPT !.read_at = now, !.status = READ]
    ELSE q

\* Inquiry.mark_as_replied: the row after the call.
mark_as_replied(q) ==
    IF ~is_replied(q)
    THEN [q EXCEPT !.replied_at = now, !.status = REPLIED]
    ELSE q

\* InquiryViewSet.get_queryset: the rows a requester's detail request finds.
InquiryQueryset(u) ==
    {i \in DOMAIN inquiries :
        inquiries[i].from_user = u \/ inquiries[i].to_user = u}

\* IsInquiryParticipant.has_object_permission
IsInquiryParticipant(u, q) ==
    \/ is_admin_user(u)
    \/ q.from_user = u
    \/ q.to_user = u

\* get_object(): the row is in the queryset and the object permission holds.
InquiryGetObject(u, i) ==
    /\ i \in InquiryQueryset(u)
    /\ IsInquiryParticipant(u, inquiries[i])

\* InquiryCreateSerializer.validate_listing that only looks the listing up.
validate_listing_Exists(u, l) == l \in DOMAIN listings

\* InquiryCreateSerializer.validate_listing
validate_listing(u, l) ==
    /\ l \in DOMAIN listings
    /\ listings[l].status = PUBLISHED
    /\ listings[l].user # u

\* The other variables, for the actions of one domain.
otherThanInquiry == <<users, listings, reports, adminlog, otps, tokens, now,
                      debug, pc, inst,
        images, categories, verifications, jobs, txn>>

\* The number of files uploaded with an inquiry.
AttachmentCounts == {0, 2}

\* POST /inquiries/ : InquiryViewSet.create with InquiryCreateSerializer.create.
\* The InquiryAttachment rows of an inquiry are counted in its attachments
\* field.
InquiryCreate(u, l, files) ==
    /\ Cardinality(DOMAIN inquiries) < MaxInquiries
    /\ IF validate_listing(u, l)
       THEN LET id == NextId(inquiries) IN
            /\ inquiries' = inquiries @@
                   (id :> [listing |-> l, from_user |-> u,
                           to_user |-> listings[l].user, status |-> PENDING,
                           read_at |-> NULL, replied_at |-> NULL,
                           attachments |-> files])
            /\ queue' = Append(queue, Job("send_inquiry_notification_task", id))
            /\ resp' = Response("inquiry_create", u, id, 201, "created")
       ELSE /\ resp' = Response("inquiry_create", u, l, 400, "invalid")
            /\ UNCHANGED <<inquiries, queue>>
    /\ UNCHANGED <<replies, otherThanInquiry>>

\* GET /inquiries/{id}/ : InquiryViewSet.retrieve
InquiryRetrieve(u, i) ==
    /\ IF ~InquiryGetObject(u, i)
       THEN /\ resp' = Response("inquiry_retrieve", u, i, 404, "not found")
            /\ UNCHANGED inquiries
       ELSE /\ inquiries' =
                 IF inquiries[i].to_user = u /\ ~is_read(inquiries[i])
                 THEN [inquiries EXCEPT ![i] = mark_as_read(@)]
                 ELSE inquiries
            /\ resp' = Response("inquiry_retrieve", u, i, 200, "detail")
    /\ UNCHANGED <<replies, queue, otherThanInquiry>>

\* POST /inquiries/{id}/reply/ : InquiryViewSet.reply, InquiryReplySerializer.create
\* and InquiryReply.save
InquiryReply(u, i) ==
    /\ Len(replies) < MaxReplies
    /\ IF ~InquiryGetObject(u, i)
       THEN /\ resp' = Response("inquiry_reply", u, i, 404, "not found")
            /\ UNCHANGED <<inquiries, replies, queue>>
       ELSE IF inquiries[i].to_user # u
       THEN /\ resp' = Response("inquiry_reply", u, i, 403, "forbidden")
            /\ UNCHANGED <<inquiries, replies, queue>>
       ELSE /\ replies' = Append(replies, [inquiry |-> i, user |-> u])
            /\ inquiries' = [inquiries EXCEPT ![i] = mark_as_replied(@)]
            /\ queue' = Append(queue,
                   Job("send_reply_notification_task", Len(replies) + 1))
            /\ resp' = Response("inquiry_reply", u, i, 201, "reply sent")
    /\ UNCHANGED otherThanInquiry

\* POST /inquiries/{id}/mark_spam/ : InquiryViewSet.mark_spam
InquiryMarkSpam(u, i) ==
    /\ IF ~InquiryGetObject(u, i)
       THEN /\ resp' = Response("inquiry_mark_spam", u, i, 404, "not found")
            /\ UNCHANGED inquiries
       ELSE IF inquiries[i].to_user # u
       THEN /\ resp' = Response("inquiry_mark_spam", u, i, 403, "forbidden")
            /\ UNCHANGED inquiries
       ELSE /\ inquiries' = [inquiries EXCEPT ![i].status = SPAM]
            /\ resp' = Response("inquiry_mark_spam", u, i, 200, "spam")
    /\ UNCHANGED <<replies, queue, otherThanInquiry>>

\* Inquiry.save: to_user is filled from the listing only when it is unset.
InquirySave(q) ==
    IF q.to_user = NULL /\ q.listing # NULL
    THEN [q EXCEPT !.to_user = listings[q.listing].user]
    ELSE q

\* PATCH /inquiries/{id}/ : ModelViewSet.partial_update with InquirySerializer,
\* whose writable fields include listing (from_user, to_user, status, read_at,
\* replied_at and created_at are read-only).
InquiryPartialUpdate(u, i, l) ==
    /\ IF ~InquiryGetObject(u, i)
       THEN /\ resp' = Response("inquiry_update", u, i, 404, "not found")
            /\ UNCHANGED inquiries
       ELSE IF l \notin DOMAIN listings
       THEN /\ resp' = Response("inquiry_update", u, i, 400, "invalid")
            /\ UNCHANGED inquiries
       ELSE /\ inquiries' =
                 [inquiries EXCEPT ![i] = InquirySave([@ EXCEPT !.listing = l])]
            /\ resp' = Response("inquiry_update", u, i, 200, "detail")
    /\ UNCHANGED <<replies, queue, otherThanInquiry>>

InitInquiry ==
    /\ users = SeedUsers
    /\ listings = SeedListings
    /\ inquiries = Empty
    /\ replies = <<>>
    /\ reports = Empty
    /\ adminlog = <<>>
    /\ otps = <<>>
    /\ tokens = <<>>
    /\ queue = <<>>
    /\ now = 1
    /\ debug = FALSE
    /\ resp = NoResponse
    /\ pc = [c \in 1..NumClients |-> "idle"]
    /\ inst = [c \in 1..NumClients |-> NoInstance]
    /\ images = Empty
    /\ categories = Empty
    /\ verifications = Empty
    /\ jobs = Empty
    /\ txn = NoTxn

NextInquiry ==
    \/ \E u \in DOMAIN users, l \in 1..MaxListings, n \in AttachmentCounts :
           InquiryCreate(u, l, n)
    \/ \E u \in DOMAIN users, i \in DOMAIN inquiries : InquiryRetrieve(u, i)
    \/ \E u \in DOMAIN users, i \in DOMAIN inquiries : InquiryReply(u, i)
    \/ \E u \in DOMAIN users, i \in DOMAIN inquiries : InquiryMarkSpam(u, i)
    \/ \E u \in DOMAIN users, i \in DOMAIN inquiries, l \in DOMAIN listings :
           InquiryPartialUpdate(u, i, l)

SpecInquiry == InitInquiry /\ [][NextInquiry]_vars

\* The order pending < read < replied < spam of the inquiry workflow.
StatusRank(s) ==
    CASE s = PENDING -> 0
      [] s = READ -> 1
      [] s = REPLIED -> 2
      [] s = SPAM -> 3
      [] OTHER -> 4

\* C1: inquiry status is monotone in the order pending < read < replied <
\* spam: no step of the recipient's retrieve, reply or mark_spam (nor any
\* other request) moves the status of an existing inquiry to a lower rank.
C1_StatusNeverReverses ==
    [][\A i \in DOMAIN inquiries :
          StatusRank(inquiries'[i].status) >= StatusRank(inquiries[i].status)]_vars

\* C10: in every reachable state the to_user of every inquiry is the owner of
\* the inquiry's listing.
C10_ToUserIsListingOwner ==
    \A i \in DOMAIN inquiries :
        inquiries[i].to_user = listings[inquiries[i].listing].user

----------------------------------------------------------------------------
(* apps/admin_panel: content reports *)

MaxLog == 2

\* ReportedContent.Status (PENDING is shared with Inquiry.Status)
REVIEWED == "reviewed"
RESOLVED == "resolved"
DISMISSED == "dismissed"
ReportStatuses == {PENDING, REVIEWED, RESOLVED, DISMISSED}

\* model_map of ReportedContentCreateSerializer.validate: the tables a
\* content-type string resolves to.
model_map == {"listing", "user", "inquiry"}

\* model_class.objects.filter(pk=object_id).exists()
ObjectExists(ct, oid) ==
    CASE ct = "listing" -> oid \in DOMAIN listings
      [] ct = "user" -> oid \in DOMAIN users
      [] ct = "inquiry" -> oid \in DOMAIN inquiries
      [] OTHER -> FALSE

\* The statuses that make an earlier report a duplicate.
OpenStatuses == {PENDING, REVIEWED}

\* The duplicate query of ReportedContentCreateSerializer.validate
duplicate(u, ct, oid) ==
    \E r \in DOMAIN reports :
        /\ reports[r].reported_by = u
        /\ reports[r].content_type = ct
        /\ reports[r].object_id = oid
        /\ reports[r].status \in OpenStatuses

\* ReportedContentCreateSerializer.validate
ReportValidate(u, ct, oid) ==
    /\ ct \in model_map
    /\ ObjectExists(ct, oid)
    /\ ~duplicate(u, ct, oid)

\* ReportedContent.mark_as_reviewed: the row after the call and its save.
mark_as_reviewed(r, admin_user) ==
    [r EXCEPT !.status = REVIEWED,
              !.reviewed_by = admin_user,
              !.reviewed_at = now]

\* rest_framework.permissions.IsAdminUser
IsAdminUser(u) == users[u].is_staff

\* AdminActionLog.log_action: the row created.
log_action(admin_user, action_type, description) ==
    [admin_user |-> admin_user, action_type |-> action_type,
     description |-> description]

otherThanReport == <<users, listings, inquiries, replies, otps, tokens, now,
                     debug, pc, inst,
        images, categories, verifications, jobs, txn>>

\* POST /admin-panel/reports/ : ReportedContentViewSet.perform_create
ReportCreate(u, ct, oid) ==
    /\ Cardinality(DOMAIN reports) < MaxReports
    /\ IF ReportValidate(u, ct, oid)
       THEN LET id == NextId(reports) IN
            /\ reports' = reports @@
                   (id :> [content_type |-> ct, object_id |-> oid,
                           reported_by |-> u, status |-> PENDING,
                           reviewed_by |-> NULL, reviewed_at |-> NULL])
            /\ queue' = Append(queue, Job("notify_admins_of_new_report", id))
            /\ resp' = Response("report_create", u, id, 201, "created")
       ELSE /\ resp' = Response("report_create", u, oid, 400, "invalid")
            /\ UNCHANGED <<reports, queue>>
    /\ UNCHANGED <<adminlog, otherThanReport>>

\* POST /admin-panel/reports/{id}/resolve/ and .../dismiss/ :
\* ReportedContentViewSet.resolve / dismiss with their target status.  The
\* handler assigns the target status to the instance, then calls
\* mark_as_reviewed, which assigns REVIEWED and saves.  The description of the
\* log entry is then built from report.get_reason_display(), a method Django
\* defines only for fields with choices; reason has none, so the handler
\* raises AttributeError after the save and before log_action.
ReportModerate(op, target, u, r) ==
    /\ IF ~IsAdminUser(u)
       THEN /\ resp' = Response(op, u, r, 403, "forbidden")
            /\ UNCHANGED reports
       ELSE /\ reports' =
                 [reports EXCEPT ![r] =
                     mark_as_reviewed([@ EXCEPT !.status = target], u)]
            /\ resp' = Response(op, u, r, 500, "AttributeError")
    /\ UNCHANGED <<adminlog, queue, otherThanReport>>

ReportResolve(u, r) == ReportModerate("report_resolve", RESOLVED, u, r)

ReportDismiss(u, r) == ReportModerate("report_dismiss", DISMISSED, u, r)

\* PATCH /admin-panel/reports/{id}/ : ModelViewSet.partial_update with
\* ReportedContentSerializer, whose writable fields include status.
ReportPartialUpdate(u, r, s) ==
    /\ IF ~IsAdminUser(u)
       THEN /\ resp' = Response("report_update", u, r, 403, "forbidden")
            /\ UNCHANGED reports
       ELSE /\ reports' = [reports EXCEPT ![r].status = s]
            /\ resp' = Response("report_update", u, r, 200, "detail")
    /\ UNCHANGED <<adminlog, queue, otherThanReport>>

\* The rows of a queryset in its order (ReportedContent.Meta.ordering is
\* -created_at: newest first).
RECURSIVE NewestFirst(_)
NewestFirst(S) ==
    IF S = {} THEN <<>>
    ELSE LET m == CHOOSE x \in S : \A y \in S : y <= x
         IN <<m>> \o NewestFirst(S \ {m})

\* The loop of ReportedContentAdmin.mark_as_resolved / mark_as_dismissed over
\* the rows the action selected: each row gets the target status in memory,
\* is saved by mark_as_reviewed and logged.
RECURSIVE BulkReview(_, _, _, _, _)
BulkReview(rows, target, u, tbl, log) ==
    IF rows = <<>> THEN [reports |-> tbl, adminlog |-> log]
    ELSE LET r == Head(rows)
             row == mark_as_reviewed([tbl[r] EXCEPT !.status = target,
                                                    !.reviewed_by = u], u)
         IN BulkReview(Tail(rows), target, u,
                       [tbl EXCEPT ![r] = row],
                       Append(log, log_action(u, "content_reviewed", r)))

\* Admin console action "Mark selected reports as resolved"
BulkMarkResolved(u, sel) ==
    LET rows == NewestFirst({r \in sel : reports[r].status = PENDING})
        out == BulkReview(rows, RESOLVED, u, reports, adminlog)
    IN /\ IsAdminUser(u)
       /\ Len(adminlog) + Len(rows) <= MaxLog
       /\ reports' = out.reports
       /\ adminlog' = out.adminlog
       /\ resp' = Response("bulk_resolve", u, Len(rows), 200, "message")
       /\ UNCHANGED <<queue, otherThanReport>>

\* Admin console action "Dismiss selected reports as invalid"
BulkMarkDismissed(u, sel) ==
    LET rows == NewestFirst({r \in sel :
                    reports[r].status \notin {DISMISSED, RESOLVED}})
        out == BulkReview(rows, DISMISSED, u, reports, adminlog)
    IN /\ IsAdminUser(u)
       /\ Len(adminlog) + Len(rows) <= MaxLog
       /\ reports' = out.reports
       /\ adminlog' = out.adminlog
       /\ resp' = Response("bulk_dismiss", u, Len(rows), 200, "message")
       /\ UNCHANGED <<queue, otherThanReport>>

\* The requesters and the targets the requests are drawn from: the reporters
\* are a buyer and a seller, the moderation requests come from a seller (not
\* staff) and the staff admin; the targets are a listing, a user, a listing
\* that does not exist and a content type outside model_map.
Reporters == {1, 2}
Moderators == {2, 4}
ReportTargets == {<<"listing", 1>>, <<"user", 2>>, <<"listing", 9>>, <<"page", 1>>}

InitReport == InitInquiry

NextReport ==
    \/ \E u \in Reporters, t \in ReportTargets : ReportCreate(u, t[1], t[2])
    \/ \E u \in Moderators, r \in DOMAIN reports : ReportResolve(u, r)
    \/ \E u \in Moderators, r \in DOMAIN reports : ReportDismiss(u, r)
    \/ \E u \in Moderators, r \in DOMAIN reports, s \in ReportStatuses :
           ReportPartialUpdate(u, r, s)
    \/ \E u \in Moderators, sel \in SUBSET (DOMAIN reports) :
           BulkMarkResolved(u, sel)
    \/ \E u \in Moderators, sel \in SUBSET (DOMAIN reports) :
           BulkMarkDismissed(u, sel)

SpecReport == InitReport /\ [][NextReport]_vars

\* The last request was an admin's resolve or dismiss action applied to r.
ModeratedLast(r) ==
    /\ resp.op \in {"report_resolve", "report_dismiss"}
    /\ resp.obj = r
    /\ resp.status # 403

\* No report other than r by the reporter of r against the object of r is open.
NoOtherOpenReport(r) ==
    \A o \in DOMAIN reports \ {r} :
        ~ /\ reports[o].reported_by = reports[r].reported_by
          /\ reports[o].content_type = reports[r].content_type
          /\ reports[o].object_id = reports[r].object_id
          /\ reports[o].status \in OpenStatuses

\* C2: while a report by U against O is pending or reviewed a new report by
\* U against O is rejected, and once an admin has applied the resolve or
\* dismiss action to it (no other report by U against O being open) a new
\* report by U against O is accepted.
C2_ReportDeduplication ==
    \A r \in DOMAIN reports :
        LET u == reports[r].reported_by
            ct == reports[r].content_type
            oid == reports[r].object_id
        IN /\ reports[r].status \in {PENDING, REVIEWED}
                  => ~ReportValidate(u, ct, oid)
           /\ ModeratedLast(r) /\ NoOtherOpenReport(r)
                  => ReportValidate(u, ct, oid)

\* The row carries the status and the stamp of a review by admin_user.
Stamped(row, status, admin_user) ==
    /\ row.status = status
    /\ row.reviewed_by = admin_user
    /\ row.reviewed_at # NULL

\* C3: after an admin's resolve action the stored status of the report is
\* resolved and after a dismiss action it is dismissed, for the API actions
\* and for every row a bulk admin action reviewed; reviewed_by is the acting
\* admin and reviewed_at is set.
C3_ModerationStoresStatus ==
    [][/\ resp'.op = "report_resolve" /\ resp'.status # 403
            => Stamped(reports'[resp'.obj], RESOLVED, resp'.user)
       /\ resp'.op = "report_dismiss" /\ resp'.status # 403
            => Stamped(reports'[resp'.obj], DISMISSED, resp'.user)
       /\ resp'.op = "bulk_resolve"
            => \A r \in DOMAIN reports : reports'[r] # reports[r]
                   => Stamped(reports'[r], RESOLVED, resp'.user)
       /\ resp'.op = "bulk_dismiss"
            => \A r \in DOMAIN reports : reports'[r] # reports[r]
                   => Stamped(reports'[r], DISMISSED, resp'.user)]_vars

----------------------------------------------------------------------------
(* apps/listings: create, update, publish, archive, featured flag *)

\* User.can_create_listings
can_create_listings(u) == users[u].role \in {SELLER, SERVICE_PROVIDER}

\* The columns of a Listing row.
Columns == {"user", "listing_type", "status", "featured", "views_count",
            "inquiries_count", "published_at", "expires_at"}

\* Listing.objects.filter(user=owner, featured=True).exclude(pk=pk)
\*     .update(featured=False)
ClearOtherFeatured(tbl, owner, pk) ==
    [k \in DOMAIN tbl |->
        IF k # pk /\ tbl[k].user = owner /\ tbl[k].featured
        THEN [tbl[k] EXCEPT !.featured = FALSE]
        ELSE tbl[k]]

\* _unset_other_featured_for_user(user, exclude_pk)
unset_other_featured_for_user(tbl, user, exclude_pk) ==
    ClearOtherFeatured(tbl, user, exclude_pk)

\* Listing.save without the step that clears the owner's other featured rows.
ListingSave_KeepsOthers(tbl, pk, row, update_fields) ==
    LET stamped == IF row.status = PUBLISHED /\ row.published_at = NULL
                   THEN [row EXCEPT !.published_at = now]
                   ELSE row
    IN IF pk \in DOMAIN tbl
       THEN [tbl EXCEPT ![pk] =
                [c \in Columns |->
                    IF c \in update_fields THEN stamped[c] ELSE @[c]]]
       ELSE tbl @@ (pk :> stamped)

\* Listing.save of the in-memory instance row with primary key pk, writing
\* the columns update_fields: published_at is stamped on the instance when it
\* is published and has none, the owner's other featured rows are cleared
\* when the instance is featured, then the columns are written.
ListingSave(tbl, pk, row, update_fields) ==
    LET stamped == IF row.status = PUBLISHED /\ row.published_at = NULL
                   THEN [row EXCEPT !.published_at = now]
                   ELSE row
        cleared == IF stamped.featured
                   THEN ClearOtherFeatured(tbl, stamped.user, pk)
                   ELSE tbl
    IN IF pk \in DOMAIN cleared
       THEN [cleared EXCEPT ![pk] =
                [c \in Columns |->
                    IF c \in update_fields THEN stamped[c] ELSE @[c]]]
       ELSE cleared @@ (pk :> stamped)

\* The body of a response that serializes a listing instance: its featured flag.
Serialized(row) == IF row.featured THEN "featured" ELSE "not featured"

\* Listing.Status.choices
Statuses == {DRAFT, PUBLISHED, ARCHIVED, FLAGGED, SUSPENDED}

\* The data of a listing write: the fields given, with their values (a field
\* that is not given carries a placeholder that is never read).  A create
\* always carries listing_type, a required field.
\* images_data is the number of image files uploaded.
Attrs(given, featured, status, listing_type, expires_at, images_data) ==
    [given |-> given, featured |-> featured, status |-> status,
     listing_type |-> listing_type, expires_at |-> expires_at,
     images_data |-> images_data]

ListingAttrs ==
    {Attrs(g, f, s, t, e, n) :
        g \in SUBSET {"featured", "status", "listing_type", "expires_at",
                      "images_data"},
        f \in BOOLEAN, s \in Statuses, t \in Types, e \in 0..MaxTime,
        n \in 0..MaxImages}

\* The writes of an equipment seller that leave status, type and expiry
\* alone: featured absent, true or false.
FeaturedAttrs ==
    {Attrs({}, FALSE, DRAFT, SELL, NULL, 0),
     Attrs({"featured"}, FALSE, DRAFT, SELL, NULL, 0),
     Attrs({"featured"}, TRUE, DRAFT, SELL, NULL, 0)}

\* validated_data.get(field, default)
AttrFeatured(a, default) == IF "featured" \in a.given THEN a.featured ELSE default
AttrStatus(a, default) == IF "status" \in a.given THEN a.status ELSE default
AttrType(a, default) ==
    IF "listing_type" \in a.given THEN a.listing_type ELSE default
AttrExpires(a, default) ==
    IF "expires_at" \in a.given THEN a.expires_at ELSE default
AttrImages(a, default) ==
    IF "images_data" \in a.given THEN a.images_data ELSE default

\* The ListingImage rows of a listing (rows are kept after deletion, marked
\* deleted, so that primary keys are never reused).
ImagesOf(tbl, listing) ==
    {i \in DOMAIN tbl : tbl[i].listing = listing /\ ~tbl[i].deleted}

\* ensure_single_primary_image that does nothing.
ensure_single_primary_image_Off(tbl, pk) == tbl

\* ensure_single_primary_image, the post_save receiver of ListingImage, for
\* the saved instance tbl[pk].
ensure_single_primary_image(tbl, pk) ==
    IF tbl[pk].is_primary
    THEN [i \in DOMAIN tbl |->
             IF i # pk /\ i \in ImagesOf(tbl, tbl[pk].listing)
                /\ tbl[i].is_primary
             THEN [tbl[i] EXCEPT !.is_primary = FALSE]
             ELSE tbl[i]]
    ELSE tbl

\* The post_save signal of ListingImage sent after the row pk is written:
\* the receivers connected to it, that is ensure_single_primary_image (the
\* listings app imports its signals module when it is ready).
post_save(tbl, pk) == ensure_single_primary_image(tbl, pk)

\* ListingImage.objects.create(listing=..., is_primary=...): the row is
\* inserted, then post_save runs.
ImageCreate(tbl, listing, is_primary) ==
    LET pk == NextId(tbl)
    IN post_save(
           tbl @@ (pk :> [listing |-> listing, is_primary |-> is_primary,
                          deleted |-> FALSE]), pk)

\* instance.save() of an existing ListingImage, then post_save.
ImageSave(tbl, pk, row) == post_save([tbl EXCEPT ![pk] = row], pk)

\* ListingCreateUpdateSerializer._create_images for files i..n-1 of n.
RECURSIVE create_images(_, _, _, _)
create_images(tbl, listing, i, n) ==
    IF i >= n THEN tbl
    ELSE create_images(ImageCreate(tbl, listing, i = 0), listing, i + 1, n)

\* instance.images.all().delete()
DeleteImages(tbl, listing) ==
    [i \in DOMAIN tbl |->
        IF i \in ImagesOf(tbl, listing)
        THEN [tbl[i] EXCEPT !.deleted = TRUE]
        ELSE tbl[i]]

\* User.is_seller, User.is_service_provider
is_seller(u) == users[u].role = SELLER
is_service_provider(u) == users[u].role = SERVICE_PROVIDER

\* ListingCreateUpdateSerializer.validate_listing_type that accepts every
\* type.
validate_listing_type_Any(u, value) == TRUE

\* ListingCreateUpdateSerializer.validate_listing_type: TRUE when the value
\* is accepted for the requester.
validate_listing_type(u, value) ==
    /\ ~(value = SERVICE /\ ~is_service_provider(u))
    /\ ~(value \in {SELL, RENT, LEASE} /\ ~is_seller(u))

otherThanListing == <<users, inquiries, replies, reports, otps, tokens, now,
                      debug, pc, inst, images, categories, verifications, jobs, txn>>

\* The same for the handlers that write images.
otherThanListingImages ==
    <<users, inquiries, replies, reports, otps, tokens, now, debug, pc, inst,
      categories, verifications, jobs, txn>>

\* POST /listings/ : CanCreateListing, ListingCreateUpdateSerializer.create
ListingCreate(u, a) ==
    /\ Cardinality(DOMAIN listings) < MaxListings
    /\ Cardinality(DOMAIN images) + AttrImages(a, 0) <= MaxImages
    /\ IF ~can_create_listings(u)
       THEN /\ resp' = Response("listing_create", u, NULL, 403, "forbidden")
            /\ UNCHANGED <<listings, images>>
       ELSE IF ~validate_listing_type(u, a.listing_type)
       THEN /\ resp' = Response("listing_create", u, NULL, 400, "invalid")
            /\ UNCHANGED <<listings, images>>
       ELSE LET id == NextId(listings)
                created == ListingSave(listings, id,
                               NewListing(u, a.listing_type,
                                          AttrStatus(a, DRAFT), FALSE,
                                          AttrExpires(a, NULL)),
                               Columns)
                flagged == [created[id] EXCEPT !.featured = TRUE]
                out == IF AttrFeatured(a, FALSE)
                       THEN unset_other_featured_for_user(
                                ListingSave(created, id, flagged, {"featured"}),
                                u, id)
                       ELSE created
            IN /\ listings' = out
               /\ images' = create_images(images, id, 0, AttrImages(a, 0))
               /\ resp' = Response("listing_create", u, id, 201,
                      Serialized(IF AttrFeatured(a, FALSE) THEN flagged
                                 ELSE created[id]))
    /\ UNCHANGED <<adminlog, queue, otherThanListingImages>>

\* IsOwnerOrAdminOrReadOnly.has_object_permission for a write
IsOwnerOrAdmin(u, row) == row.user = u \/ is_admin_user(u)

\* The instance after `for attr, value in validated_data.items(): setattr(...)`
SetAttrs(row, a) ==
    [row EXCEPT !.featured = AttrFeatured(a, @), !.status = AttrStatus(a, @),
                !.listing_type = AttrType(a, @),
                !.expires_at = AttrExpires(a, @)]

\* The fields ListingStatusUpdateSerializer writes: status and featured.
SetStatusAttrs(row, a) ==
    [row EXCEPT !.featured = AttrFeatured(a, @), !.status = AttrStatus(a, @)]

\* PUT/PATCH /listings/{id}/ : ListingCreateUpdateSerializer.validate / update
ListingUpdate(u, l, a) ==
    /\ Cardinality(DOMAIN images) + AttrImages(a, 0) <= MaxImages
    /\ IF ~IsOwnerOrAdmin(u, listings[l])
       THEN /\ resp' = Response("listing_update", u, l, 403, "forbidden")
            /\ UNCHANGED <<listings, images>>
       ELSE IF \/ "listing_type" \in a.given
                  /\ ~validate_listing_type(u, a.listing_type)
               \/ "featured" \in a.given /\ u # listings[l].user
       THEN /\ resp' = Response("listing_update", u, l, 400, "invalid")
            /\ UNCHANGED <<listings, images>>
       ELSE LET instance == SetAttrs(listings[l], a)
                saved == ListingSave(listings, l, instance, Columns)
            IN /\ listings' =
                    IF AttrFeatured(a, FALSE)
                    THEN unset_other_featured_for_user(saved, instance.user, l)
                    ELSE saved
               /\ images' =
                    IF "images_data" \in a.given
                    THEN create_images(DeleteImages(images, l), l, 0,
                                       a.images_data)
                    ELSE images
               /\ resp' = Response("listing_update", u, l, 200,
                                   Serialized(saved[l]))
    /\ UNCHANGED <<adminlog, queue, otherThanListingImages>>

\* ListingStatusUpdateSerializer.update (no view routes to it; it is the
\* admin status update of a listing).  The row is saved and the owner's other
\* featured rows are cleared before the audit entry is attempted; the import
\* `from admin_panel.models import AdminActionLog` names a module that does
\* not exist (the package is apps.admin_panel), so a status change raises
\* after the save and writes no audit entry.
ListingStatusUpdate(u, l, a) ==
    LET instance == SetStatusAttrs(listings[l], a)
        saved == ListingSave(listings, l, instance, Columns)
    IN /\ IsAdminUser(u)
       /\ listings' =
            IF AttrFeatured(a, FALSE)
            THEN unset_other_featured_for_user(saved, instance.user, l)
            ELSE saved
       /\ resp' = IF "status" \in a.given
                  THEN Response("listing_status_update", u, l, 500,
                                "ModuleNotFoundError")
                  ELSE Response("listing_status_update", u, l, 200,
                                Serialized(saved[l]))
       /\ UNCHANGED <<adminlog, queue, otherThanListing>>

\* The permission classes of ListingViewSet for a POST on one listing:
\* CanCreateListing.has_permission (every POST, not only create) and
\* IsOwnerOrAdminOrReadOnly.has_object_permission, checked by get_object.
MayPostOn(u, row) == can_create_listings(u) /\ IsOwnerOrAdmin(u, row)

\* POST /listings/{id}/publish/ : ListingViewSet.publish
ListingPublish(u, l) ==
    /\ IF ~MayPostOn(u, listings[l])
       THEN /\ resp' = Response("listing_publish", u, l, 403, "forbidden")
            /\ UNCHANGED listings
       ELSE IF listings[l].status # DRAFT
       THEN /\ resp' = Response("listing_publish", u, l, 400, "not draft")
            /\ UNCHANGED listings
       ELSE /\ listings' = ListingSave(listings, l,
                               [listings[l] EXCEPT !.status = PUBLISHED],
                               {"status", "published_at"})
            /\ resp' = Response("listing_publish", u, l, 200, "published")
    /\ UNCHANGED <<adminlog, queue, otherThanListing>>

\* POST /listings/{id}/archive/ : ListingViewSet.archive
ListingArchive(u, l) ==
    /\ IF ~MayPostOn(u, listings[l])
       THEN /\ resp' = Response("listing_archive", u, l, 403, "forbidden")
            /\ UNCHANGED listings
       ELSE /\ listings' = ListingSave(listings, l,
                               [listings[l] EXCEPT !.status = ARCHIVED],
                               {"status"})
            /\ resp' = Response("listing_archive", u, l, 200, "archived")
    /\ UNCHANGED <<adminlog, queue, otherThanListing>>

\* The loop of ListingAdmin.toggle_featured over the instances the queryset
\* loaded when the loop began (snap): each is toggled from the featured value
\* it was loaded with and saved whole.
RECURSIVE ToggleLoop(_, _, _)
ToggleLoop(rows, snap, tbl) ==
    IF rows = <<>> THEN tbl
    ELSE LET l == Head(rows)
             mem == snap[l]
             others == IF ~mem.featured
                       THEN ClearOtherFeatured(tbl, mem.user, l)
                       ELSE tbl
             row == [mem EXCEPT !.featured = ~mem.featured]
         IN ToggleLoop(Tail(rows), snap, ListingSave(others, l, row, Columns))

\* Admin console action "Toggle featured flag"
ListingToggleFeatured(u, sel) ==
    /\ IsAdminUser(u)
    /\ sel # {}
    /\ listings' = ToggleLoop(NewestFirst(sel), listings, listings)
    /\ resp' = Response("toggle_featured", u, Cardinality(sel), 200, "message")
    /\ UNCHANGED <<adminlog, queue, otherThanListing>>

\* Admin console change form of a listing (ListingAdmin, featured editable):
\* the form's instance is saved whole with Listing.save.
ListingAdminChange(u, l, f) ==
    /\ IsAdminUser(u)
    /\ listings' = ListingSave(listings, l,
                       [listings[l] EXCEPT !.featured = f], Columns)
    /\ resp' = Response("admin_change", u, l, 200,
                        Serialized([listings[l] EXCEPT !.featured = f]))
    /\ UNCHANGED <<adminlog, queue, otherThanListing>>

\* The requesters: everyone (the buyer too) may try to create, the two
\* sellers and the admin send the API writes, the staff admin uses the admin
\* console and the status update.
ListingWriters == {2, 3, 4}
ListingAdmins == {4}

InitListing == InitInquiry

NextListing ==
    \/ \E u \in DOMAIN users, a \in FeaturedAttrs : ListingCreate(u, a)
    \/ \E u \in ListingWriters, l \in DOMAIN listings, a \in FeaturedAttrs :
           ListingUpdate(u, l, a)
    \/ \E u \in ListingAdmins, l \in DOMAIN listings, a \in FeaturedAttrs :
           ListingStatusUpdate(u, l, a)
    \/ \E u \in ListingWriters, l \in DOMAIN listings : ListingPublish(u, l)
    \/ \E u \in ListingAdmins, sel \in SUBSET (DOMAIN listings) :
           ListingToggleFeatured(u, sel)
    \/ \E u \in ListingAdmins, l \in DOMAIN listings, f \in BOOLEAN :
           ListingAdminChange(u, l, f)

SpecListing == InitListing /\ [][NextListing]_vars

\* The featured listings of user u in a table.
FeaturedOf(u, tbl) == {l \in DOMAIN tbl : tbl[l].user = u /\ tbl[l].featured}

\* The last request wrote a listing and answered with the listing featured.
AnsweredFeatured(r) ==
    /\ r.op \in {"listing_create", "listing_update", "listing_status_update",
                 "admin_change"}
    /\ r.status \in {200, 201}
    /\ r.body = "featured"

\* C4: featured-listing exclusivity.  In every reachable state no user has
\* more than one featured listing, and every create, owner update, admin
\* status update or admin change that answers with the listing featured, and
\* every admin toggle that newly features a listing, leaves that listing the
\* one and only featured listing of its owner (the previous one is cleared).
C4_FeaturedExclusive ==
    /\ [](\A u \in DOMAIN users : Cardinality(FeaturedOf(u, listings)) <= 1)
    /\ [][/\ AnsweredFeatured(resp')
              => FeaturedOf(listings'[resp'.obj].user, listings') = {resp'.obj}
          /\ \A l \in DOMAIN listings :
                 ~listings[l].featured /\ listings'[l].featured
                     => FeaturedOf(listings'[l].user, listings') = {l}]_vars

\* A user owns two listings, the last request featured one of them, and it
\* is the user's only featured listing.
C4_Witness ==
    /\ AnsweredFeatured(resp)
    /\ resp.op = "listing_update"
    /\ \E l \in DOMAIN listings :
           /\ l # resp.obj
           /\ listings[l].user = listings[resp.obj].user
           /\ ~listings[l].featured
    /\ FeaturedOf(listings[resp.obj].user, listings) = {resp.obj}

----------------------------------------------------------------------------
(* apps/listings: status lifecycle, published_at, the expiry job *)

\* queryset.update(status=value) on the selected rows: one UPDATE statement
\* that does not call Listing.save.
QuerysetUpdateStatus(tbl, sel, value) ==
    [l \in DOMAIN tbl |->
        IF l \in sel THEN [tbl[l] EXCEPT !.status = value] ELSE tbl[l]]

\* Admin console action "Mark selected as published"
mark_published(u, sel) ==
    /\ IsAdminUser(u)
    /\ sel # {}
    /\ listings' = QuerysetUpdateStatus(listings, sel, PUBLISHED)
    /\ resp' = Response("mark_published", u, Cardinality(sel), 200, "message")
    /\ UNCHANGED <<adminlog, queue, otherThanListing>>

\* Admin console action "Archive selected listings"
mark_archived(u, sel) ==
    /\ IsAdminUser(u)
    /\ sel # {}
    /\ listings' = QuerysetUpdateStatus(listings, sel, ARCHIVED)
    /\ resp' = Response("mark_archived", u, Cardinality(sel), 200, "message")
    /\ UNCHANGED <<adminlog, queue, otherThanListing>>

\* The rows of Listing.objects.filter(expires_at__lte=t, status=PUBLISHED):
\* a NULL expires_at matches no comparison.
ExpiredPublished(tbl, t) ==
    {l \in DOMAIN tbl :
        /\ tbl[l].expires_at # NULL
        /\ tbl[l].expires_at <= t
        /\ tbl[l].status = PUBLISHED}

\* expire_listings_task whose filter leaves the status out.
expire_listings_task_AnyStatus(tbl, t) ==
    LET qs == {l \in DOMAIN tbl :
                  tbl[l].expires_at # NULL /\ tbl[l].expires_at <= t}
    IN [tbl |-> QuerysetUpdateStatus(tbl, qs, ARCHIVED),
        count |-> Cardinality(qs)]

\* expire_listings_task run at time t on the table: the table after the bulk
\* update and the count returned.
expire_listings_task(tbl, t) ==
    LET qs == ExpiredPublished(tbl, t)
    IN [tbl |-> QuerysetUpdateStatus(tbl, qs, ARCHIVED),
        count |-> Cardinality(qs)]

\* One run of the periodic job; its result record carries the count returned.
ExpireListings ==
    LET run == expire_listings_task(listings, now)
    IN /\ listings' = run.tbl
       /\ resp' = Response("expire_listings", NULL, run.count, NULL, "")
       /\ UNCHANGED <<adminlog, queue, otherThanListing>>

\* The writes of the lifecycle specification: a status change to draft or
\* published, or an expiry time.
ExpiryInputs == {2}
LifecycleAttrs ==
    {Attrs({"status"}, FALSE, st, SELL, NULL, 0) : st \in {DRAFT, PUBLISHED}}
        \cup {Attrs({"expires_at"}, FALSE, DRAFT, SELL, e, 0) :
                  e \in ExpiryInputs}

InitLifecycle == InitInquiry

NextLifecycle ==
    \/ \E u \in ListingWriters, l \in DOMAIN listings, a \in LifecycleAttrs :
           ListingUpdate(u, l, a)
    \/ \E u \in DOMAIN users, l \in DOMAIN listings : ListingPublish(u, l)
    \/ \E u \in DOMAIN users, l \in DOMAIN listings : ListingArchive(u, l)
    \/ \E u \in ListingAdmins, sel \in SUBSET (DOMAIN listings) :
           mark_published(u, sel)
    \/ \E u \in ListingAdmins, sel \in SUBSET (DOMAIN listings) :
           mark_archived(u, sel)
    \/ ExpireListings
    \/ Tick

SpecLifecycle == InitLifecycle /\ [][NextLifecycle]_vars

\* C11: publish and archive are permitted exactly to the listing's owner and
\* to users with an admin role, and publish succeeds only on a draft; every
\* other call returns an error and leaves status and published_at unchanged.
C11_PublishArchivePermission ==
    [][/\ now' = now /\ resp'.op = "listing_publish" =>
            LET row == listings[resp'.obj]
                allowed == /\ row.user = resp'.user \/ is_admin_user(resp'.user)
                           /\ row.status = DRAFT
            IN /\ (resp'.status = 200) = allowed
               /\ allowed => listings'[resp'.obj].status = PUBLISHED
               /\ ~allowed => /\ resp'.status \in {400, 403}
                              /\ listings' = listings
       /\ now' = now /\ resp'.op = "listing_archive" =>
            LET row == listings[resp'.obj]
                allowed == row.user = resp'.user \/ is_admin_user(resp'.user)
            IN /\ (resp'.status = 200) = allowed
               /\ allowed => listings'[resp'.obj].status = ARCHIVED
               /\ ~allowed => /\ resp'.status = 403
                              /\ listings' = listings]_vars

\* C12: a published listing has a published_at, and a published_at that is
\* set is never changed by a later operation.
C12_PublishedAtSetOnce ==
    /\ [](\A l \in DOMAIN listings :
             listings[l].status = PUBLISHED => listings[l].published_at # NULL)
    /\ [][\A l \in DOMAIN listings :
             listings[l].published_at # NULL =>
                 listings'[l].published_at = listings[l].published_at]_vars

\* C19: one run of the expiry job archives exactly the published listings
\* whose expires_at is at or before the current time, changes nothing else
\* and returns their number; a second run straight after it archives nothing
\* and returns 0.
C19_ExpireJobIdempotent ==
    [][now' = now /\ resp'.op = "expire_listings" =>
          LET due == {l \in DOMAIN listings :
                         /\ listings[l].status = PUBLISHED
                         /\ listings[l].expires_at # NULL
                         /\ listings[l].expires_at <= now}
              again == expire_listings_task(listings', now')
          IN /\ DOMAIN listings' = DOMAIN listings
             /\ \A l \in DOMAIN listings :
                    listings'[l] = IF l \in due
                                   THEN [listings[l] EXCEPT !.status = ARCHIVED]
                                   ELSE listings[l]
             /\ resp'.obj = Cardinality(due)
             /\ again.count = 0
             /\ again.tbl = listings']_vars

\* A run of the job has archived a listing whose expiry had passed and left
\* a published listing without expiry alone.
C19_Witness ==
    /\ resp.op = "expire_listings"
    /\ resp.obj >= 1
    /\ \E l \in DOMAIN listings :
           /\ listings[l].status = ARCHIVED
           /\ listings[l].expires_at # NULL
           /\ listings[l].expires_at <= now
    /\ \E l \in DOMAIN listings :
           listings[l].status = PUBLISHED /\ listings[l].expires_at = NULL

----------------------------------------------------------------------------
(* apps/listings: listing type and the creator's role *)

\* The accounts of the creation specification: the seed accounts and a
\* service provider.
CreatorUsers ==
    SeedUsers @@
    (5 :> [email |-> "e@x", role |-> SERVICE_PROVIDER, is_active |-> TRUE,
           is_staff |-> FALSE, is_verified |-> FALSE,
           password |-> "p1"])

\* The writes that carry a listing type and nothing else.
TypeAttrs ==
    {Attrs({"listing_type"}, FALSE, DRAFT, t, NULL, 0) : t \in Types}

\* The requesters of the type updates: a seller, the admin and the service
\* provider.
TypeUpdaters == {2, 4, 5}

InitCreate ==
    /\ users = CreatorUsers
    /\ listings = Empty
    /\ inquiries = Empty
    /\ replies = <<>>
    /\ reports = Empty
    /\ adminlog = <<>>
    /\ otps = <<>>
    /\ tokens = <<>>
    /\ queue = <<>>
    /\ now = 1
    /\ debug = FALSE
    /\ resp = NoResponse
    /\ pc = [c \in 1..NumClients |-> "idle"]
    /\ inst = [c \in 1..NumClients |-> NoInstance]
    /\ images = Empty
    /\ categories = Empty
    /\ verifications = Empty
    /\ jobs = Empty
    /\ txn = NoTxn

NextCreate ==
    \/ \E u \in DOMAIN users, a \in TypeAttrs : ListingCreate(u, a)
    \/ \E u \in TypeUpdaters, l \in DOMAIN listings, a \in TypeAttrs :
           ListingUpdate(u, l, a)

SpecCreate == InitCreate /\ [][NextCreate]_vars

\* The listing types a role may create.
TypesOfRole(role) ==
    CASE role = SELLER -> {SELL, RENT, LEASE}
      [] role = SERVICE_PROVIDER -> {SERVICE}
      [] OTHER -> {}

\* C17: a create request is rejected when the type does not fit the
\* requester's role (a buyer: every type; a seller: service; a service
\* provider: sell, rent, lease) and is accepted when it fits, so a listing
\* has type service iff its owner is a service provider and an equipment
\* type iff its owner is a seller.
C17_TypeMatchesRole ==
    /\ [](\A l \in DOMAIN listings :
             /\ (listings[l].listing_type = SERVICE)
                    = (users[listings[l].user].role = SERVICE_PROVIDER)
             /\ (listings[l].listing_type \in {SELL, RENT, LEASE})
                    = (users[listings[l].user].role = SELLER))
    /\ [][\A u \in DOMAIN users, a \in TypeAttrs :
             ListingCreate(u, a) =>
                 IF a.listing_type \in TypesOfRole(users[u].role)
                 THEN /\ resp'.status = 201
                      /\ listings'[resp'.obj].user = u
                      /\ listings'[resp'.obj].listing_type = a.listing_type
                 ELSE /\ resp'.status \in {400, 403}
                      /\ listings' = listings]_vars

\* A seller has created an equipment listing and the service provider a
\* service listing.
C17_Witness ==
    /\ resp.op = "listing_create"
    /\ resp.status = 201
    /\ \E l \in DOMAIN listings :
           /\ users[listings[l].user].role = SELLER
           /\ listings[l].listing_type = RENT
    /\ \E l \in DOMAIN listings :
           /\ users[listings[l].user].role = SERVICE_PROVIDER
           /\ listings[l].listing_type = SERVICE

----------------------------------------------------------------------------
(* apps/listings: listing images and the primary flag *)

\* Admin console, ListingImageAdmin change form: the image is saved with the
\* is_primary value of the form.
ImageAdminSave(u, i, f) ==
    /\ IsAdminUser(u)
    /\ ~images[i].deleted
    /\ images' = ImageSave(images, i, [images[i] EXCEPT !.is_primary = f])
    /\ resp' = Response("image_save", u, i, 200,
                        IF f THEN "primary" ELSE "not primary")
    /\ UNCHANGED <<listings, adminlog, queue, otherThanListingImages>>

\* Admin console, ListingImageAdmin add form.
ImageAdminAdd(u, l, f) ==
    /\ IsAdminUser(u)
    /\ Cardinality(DOMAIN images) < MaxImages
    /\ images' = ImageCreate(images, l, f)
    /\ resp' = Response("image_add", u, NextId(images), 200,
                        IF f THEN "primary" ELSE "not primary")
    /\ UNCHANGED <<listings, adminlog, queue, otherThanListingImages>>

\* The saves of an inline formset: the changed forms, in the order of the
\* queryset (sort_order, id), each saving its image with the submitted flag.
RECURSIVE FormsetSave(_, _, _)
FormsetSave(tbl, sel, form) ==
    IF sel = {} THEN tbl
    ELSE LET i == CHOOSE k \in sel : \A j \in sel : k <= j
         IN FormsetSave(ImageSave(tbl, i, [tbl[i] EXCEPT !.is_primary = form[i]]),
                        sel \ {i}, form)

\* Admin console, ListingImageInline of the listing change form: the changed
\* images sel of listing l are saved with the flags of the form.
ImageInlineSave(u, l, sel, form) ==
    /\ IsAdminUser(u)
    /\ sel # {}
    /\ sel \subseteq ImagesOf(images, l)
    /\ images' = FormsetSave(images, sel, form)
    /\ resp' = Response("image_inline", u, l, 200, "saved")
    /\ UNCHANGED <<listings, adminlog, queue, otherThanListingImages>>

\* The writes that carry image files: none, one or two.
ImageCounts == {0, 1, 2}
ImageAttrs ==
    {Attrs({"listing_type", "images_data"}, FALSE, DRAFT, SELL, NULL, n) :
        n \in ImageCounts}

\* The owner that uploads images.
ImageOwners == {2}

\* The listings the admin adds images to: those of the uploading owner.
ImageListings == {l \in DOMAIN listings : listings[l].user \in ImageOwners}

InitImages == InitInquiry

NextImages ==
    \/ \E u \in ImageOwners, a \in ImageAttrs : ListingCreate(u, a)
    \/ \E u \in ImageOwners, l \in DOMAIN listings, a \in ImageAttrs :
           ListingUpdate(u, l, a)
    \/ \E u \in ListingAdmins, i \in DOMAIN images, f \in BOOLEAN :
           ImageAdminSave(u, i, f)
    \/ \E u \in ListingAdmins, l \in ImageListings, f \in BOOLEAN :
           ImageAdminAdd(u, l, f)
    \/ \E u \in ListingAdmins, l \in DOMAIN listings :
           \E sel \in SUBSET ImagesOf(images, l) :
               \E form \in [sel -> BOOLEAN] : ImageInlineSave(u, l, sel, form)

SpecImages == InitImages /\ [][NextImages]_vars

\* The primary images of a listing.
PrimaryOf(tbl, l) == {i \in ImagesOf(tbl, l) : tbl[i].is_primary}

\* C13: in every reachable state a listing has at most one primary image,
\* and an image that a step makes primary (a new primary image, or an
\* existing one whose flag is set) is the only primary image of its listing
\* after the step; a set of images created for a listing has its first image
\* primary.
C13_PrimaryImageExclusive ==
    /\ [](\A l \in DOMAIN listings : Cardinality(PrimaryOf(images, l)) <= 1)
    /\ [][/\ resp'.op \in {"image_save", "image_add"} /\ resp'.body = "primary"
              => PrimaryOf(images', images'[resp'.obj].listing) = {resp'.obj}
          /\ resp'.op \in {"listing_create", "listing_update"}
              /\ resp'.status \in {200, 201}
              /\ DOMAIN images' # DOMAIN images
              => PrimaryOf(images', resp'.obj) = {NextId(images)}]_vars

\* A listing has three images, the last request made the third primary and
\* it is the only primary one.
C13_Witness ==
    /\ resp.op = "image_save"
    /\ resp.body = "primary"
    /\ Cardinality(ImagesOf(images, images[resp.obj].listing)) >= 3
    /\ \A i \in ImagesOf(images, images[resp.obj].listing) : i <= resp.obj
    /\ PrimaryOf(images, images[resp.obj].listing) = {resp.obj}

----------------------------------------------------------------------------
(* apps/categories *)

\* The category names of the requests: a name, the same name in another
\* case, and a different name with the same slug.
CategoryNames == {"Pumps", "PUMPS", "Pumps!"}

\* The case folding of name__iexact.
NameFold(name) ==
    CASE name = "Pumps" -> "pumps"
      [] name = "PUMPS" -> "pumps"
      [] name = "Pumps!" -> "pumps!"
      [] OTHER -> name

\* django.utils.text.slugify: lower case, characters other than letters,
\* digits, hyphens and spaces dropped, spaces turned into hyphens.
slugify(name) ==
    CASE name = "Pumps" -> "pumps"
      [] name = "PUMPS" -> "pumps"
      [] name = "Pumps!" -> "pumps"
      [] OTHER -> name

\* f"{base_slug}-{counter}"; candidate 0 is the base slug itself.
SlugCandidate(base_slug, counter) ==
    IF counter = 0 THEN base_slug
    ELSE base_slug \o "-" \o ToString(counter)

\* Category.objects.filter(slug=slug).exclude(pk=pk).exists()
SlugExists(tbl, slug, pk) ==
    \E c \in DOMAIN tbl : c # pk /\ tbl[c].slug = slug

\* The while loop of Category.save from candidate counter on.
RECURSIVE UniqueSlug(_, _, _, _)
UniqueSlug(tbl, base_slug, counter, pk) ==
    IF SlugExists(tbl, SlugCandidate(base_slug, counter), pk)
    THEN UniqueSlug(tbl, base_slug, counter + 1, pk)
    ELSE SlugCandidate(base_slug, counter)

\* Category.save that keeps the base slug whatever the table holds.
CategorySave_BaseSlug(tbl, pk, row) ==
    LET slugged == IF row.slug = ""
                   THEN [row EXCEPT !.slug = slugify(row.name)]
                   ELSE row
    IN IF pk \in DOMAIN tbl THEN [tbl EXCEPT ![pk] = slugged]
       ELSE tbl @@ (pk :> slugged)

\* Category.save: a missing slug is generated, then the row is written.
CategorySave(tbl, pk, row) ==
    LET slugged == IF row.slug = ""
                   THEN [row EXCEPT !.slug =
                            UniqueSlug(tbl, slugify(row.name), 0, pk)]
                   ELSE row
    IN IF pk \in DOMAIN tbl THEN [tbl EXCEPT ![pk] = slugged]
       ELSE tbl @@ (pk :> slugged)

\* The unique constraint of Category.name (an exact match).
NameTaken(tbl, name, pk) ==
    \E c \in DOMAIN tbl : c # pk /\ tbl[c].name = name

\* The set S and the parents of its members, n times over.
RECURSIVE Up(_, _, _)
Up(tbl, S, n) ==
    IF n = 0 THEN S
    ELSE Up(tbl, S \cup ({tbl[c].parent : c \in S} \ {NULL}), n - 1)

\* value.get_ancestors(include_self=True)
get_ancestors(tbl, value) == Up(tbl, {value}, Cardinality(DOMAIN tbl))

\* CategoryCreateUpdateSerializer.validate_parent that only refuses the
\* category itself.
validate_parent_SelfOnly(tbl, instance, value) ==
    ~(value # NULL /\ instance # NULL /\ value = instance)

\* CategoryCreateUpdateSerializer.validate_parent: TRUE when the value is
\* accepted (instance is NULL on a create).
validate_parent(tbl, instance, value) ==
    /\ ~(value # NULL /\ instance # NULL /\ value = instance)
    /\ ~(value # NULL /\ instance # NULL
         /\ instance \in get_ancestors(tbl, value))

\* CategoryCreateUpdateSerializer.validate_name: TRUE when the value is
\* accepted.
validate_name(tbl, instance, value) ==
    ~\E c \in DOMAIN tbl : c # instance /\ NameFold(tbl[c].name) = NameFold(value)

otherThanCategory ==
    <<users, listings, inquiries, replies, reports, adminlog, otps, tokens,
      queue, now, debug, pc, inst, images, verifications, jobs, txn>>

\* Category.objects.create(name=..., parent=...) with no slug, as the sample
\* data command creates categories: Category.save, then the INSERT, which
\* the unique constraint on name refuses for a name already stored.
CategoryObjectsCreate(name, parent) ==
    LET pk == NextId(categories)
        row == [name |-> name, slug |-> "", parent |-> parent]
    IN /\ Cardinality(DOMAIN categories) < MaxCategories
       /\ IF NameTaken(categories, name, pk)
          THEN /\ resp' = Response("category_create", NULL, NULL, NULL,
                                   "IntegrityError")
               /\ UNCHANGED categories
          ELSE /\ categories' = CategorySave(categories, pk, row)
               /\ resp' = Response("category_create", NULL, pk, NULL,
                                   "created")
       /\ UNCHANGED otherThanCategory

\* POST /categories/admin/ : the public router is included first and its
\* detail route (pk = "admin") matches the path, so the request reaches the
\* read-only CategoryViewSet, which has no handler for POST.
CategoryCreate(u, name, parent) ==
    /\ resp' = Response("category_post", u, NULL, 405, "Method Not Allowed")
    /\ UNCHANGED <<categories, otherThanCategory>>

\* The data of a category update: the fields given, with their values.
CategoryAttrs ==
    {[given |-> {"name"}, name |-> n, parent |-> NULL] : n \in CategoryNames}
        \cup {[given |-> {"parent"}, name |-> "Pumps", parent |-> p] :
                  p \in 0..MaxCategories}

\* PUT/PATCH /categories/admin/{id}/ : CategoryAdminViewSet with
\* CategoryCreateUpdateSerializer; the slug is not a field of the serializer
\* and is kept.
CategoryUpdate(u, c, a) ==
    /\ "parent" \in a.given => a.parent \in DOMAIN categories \cup {NULL}
    /\ IF ~IsAdminUser(u)
       THEN /\ resp' = Response("category_update", u, c, 403, "forbidden")
            /\ UNCHANGED categories
       ELSE IF \/ "name" \in a.given
                  /\ (~validate_name(categories, c, a.name)
                      \/ NameTaken(categories, a.name, c))
               \/ "parent" \in a.given
                  /\ ~validate_parent(categories, c, a.parent)
       THEN /\ resp' = Response("category_update", u, c, 400, "invalid")
            /\ UNCHANGED categories
       ELSE /\ categories' = CategorySave(categories, c,
                   [categories[c] EXCEPT
                       !.name = IF "name" \in a.given THEN a.name ELSE @,
                       !.parent = IF "parent" \in a.given THEN a.parent ELSE @])
            /\ resp' = Response("category_update", u, c, 200, "updated")
    /\ UNCHANGED otherThanCategory

\* The requesters of the category API: a buyer and the staff admin.
CategoryUsers == {1, 4}

InitCategory == InitInquiry

NextCategory ==
    \/ \E n \in CategoryNames, p \in DOMAIN categories \cup {NULL} :
           CategoryObjectsCreate(n, p)
    \/ \E u \in CategoryUsers, n \in CategoryNames : CategoryCreate(u, n, NULL)
    \/ \E u \in CategoryUsers, c \in DOMAIN categories, a \in CategoryAttrs :
           CategoryUpdate(u, c, a)

SpecCategory == InitCategory /\ [][NextCategory]_vars

\* The strict ancestors of a category: the parent chain above it.
StrictAncestors(tbl, c) ==
    IF tbl[c].parent = NULL THEN {}
    ELSE Up(tbl, {tbl[c].parent}, Cardinality(DOMAIN tbl))

\* The descendants of a category, direct or transitive.
Descendants(tbl, x) == {c \in DOMAIN tbl : x \in StrictAncestors(tbl, c)}

\* C14: an update that sets the parent of X to X or to a descendant of X is
\* rejected and leaves the categories unchanged, and in every reachable
\* state no category is its own ancestor.
C14_NoCategoryCycle ==
    /\ [](\A c \in DOMAIN categories : c \notin StrictAncestors(categories, c))
    /\ [][\A u \in CategoryUsers, x \in DOMAIN categories, a \in CategoryAttrs :
             /\ CategoryUpdate(u, x, a)
             /\ "parent" \in a.given
             /\ a.parent \in {x} \cup Descendants(categories, x)
             => /\ resp'.status \in {400, 403}
                /\ categories' = categories]_vars

\* The staff admin has been refused a parent that is a transitive (not a
\* direct) descendant of the category.
C14_Witness ==
    /\ resp.op = "category_update"
    /\ resp.user = 4
    /\ resp.status = 400
    /\ \E c \in Descendants(categories, resp.obj) :
           categories[c].parent # resp.obj

\* The slug candidates base, base-1, ... before candidate number k.
EarlierCandidates(base, k) == {SlugCandidate(base, j) : j \in 0..(k - 1)}

\* The slugs stored in a table.
Slugs(tbl) == {tbl[c].slug : c \in DOMAIN tbl}

\* Every category a step adds has the first slug of the sequence base,
\* base-1, base-2, ... that no category had before the step.
FirstUnusedSlug ==
    \A c \in DOMAIN categories' \ DOMAIN categories :
        \E k \in 0..Cardinality(DOMAIN categories) :
            /\ categories'[c].slug = SlugCandidate(slugify(categories'[c].name), k)
            /\ categories'[c].slug \notin Slugs(categories)
            /\ EarlierCandidates(slugify(categories'[c].name), k)
                   \subseteq Slugs(categories)

\* C20 as stated: a category saved without a slug gets the first unused slug
\* of the sequence, and creating a second category named "Pumps" next to one
\* that has the slug pumps yields a category with the slug pumps-1.
C20_TwoPumps ==
    [][/\ FirstUnusedSlug
       /\ \A p \in DOMAIN categories \cup {NULL} :
              /\ CategoryObjectsCreate("Pumps", p)
              /\ \E c \in DOMAIN categories :
                     categories[c].name = "Pumps" /\ categories[c].slug = "pumps"
              /\ "pumps-1" \notin Slugs(categories)
              => \E c \in DOMAIN categories' \ DOMAIN categories :
                     /\ categories'[c].name = "Pumps"
                     /\ categories'[c].slug = "pumps-1"]_vars

\* C20: a category saved without a slug gets the first unused slug of the
\* sequence base, base-1, base-2, ...; a second category with a name already
\* stored is refused, and a category whose different name has the same base
\* as a stored slug gets the next free suffix; slugs stay unique.
C20_SlugDisambiguation ==
    /\ [](\A c, d \in DOMAIN categories :
             categories[c].slug = categories[d].slug => c = d)
    /\ [][/\ FirstUnusedSlug
          /\ \A n \in CategoryNames, p \in DOMAIN categories \cup {NULL} :
                 CategoryObjectsCreate(n, p) =>
                     IF \E c \in DOMAIN categories : categories[c].name = n
                     THEN categories' = categories
                     ELSE /\ DOMAIN categories' # DOMAIN categories
                          /\ (slugify(n) \in Slugs(categories)) =
                                 (categories'[NextId(categories)].slug
                                      # slugify(n))]_vars

\* Two categories with different names and the same base have the slugs
\* pumps and pumps-1.
C20_Witness ==
    /\ resp.op = "category_create"
    /\ resp.body = "created"
    /\ \E c, d \in DOMAIN categories :
           /\ categories[c].name = "Pumps" /\ categories[c].slug = "pumps"
           /\ categories[d].name = "Pumps!" /\ categories[d].slug = "pumps-1"

----------------------------------------------------------------------------
(* apps/listings: concurrent retrieve requests (view counting) *)

\* ListingViewSet.get_queryset for retrieve: published listings, and the
\* requester's own (u is NULL for an anonymous requester).
RetrieveQueryset(u) ==
    {l \in DOMAIN listings :
        listings[l].status = PUBLISHED \/ (u # NULL /\ listings[l].user = u)}

\* The UPDATE of a read-modify-write on the value the instance was loaded
\* with, instead of the F() expression.
increment_views_FromInstance(tbl, instance) ==
    [tbl EXCEPT ![instance.pk].views_count = instance.views_count + 1]

\* Listing.increment_views: UPDATE listings SET views_count = views_count + 1
\* WHERE pk = instance.pk, one statement of the store.
increment_views(tbl, instance) ==
    [tbl EXCEPT ![instance.pk].views_count = @ + 1]

\* instance.refresh_from_db(fields=['views_count'])
refresh_from_db(instance) ==
    [instance EXCEPT !.views_count = listings[instance.pk].views_count]

otherThanViews == <<users, inquiries, replies, reports, adminlog, otps,
                    tokens, now, debug, images, categories, verifications, jobs, txn>>

\* GET /listings/{id}/ by client c, first statement: get_object() loads the
\* instance, or answers 404 when the queryset does not hold the listing.
RetrieveLoad(c, u, l) ==
    /\ pc[c] = "idle"
    /\ IF l \in RetrieveQueryset(u)
       THEN /\ inst' = [inst EXCEPT ![c] =
                           [user |-> u, pk |-> l, status |-> listings[l].status,
                            views_count |-> listings[l].views_count]]
            /\ pc' = [pc EXCEPT ![c] = "loaded"]
            /\ UNCHANGED resp
       ELSE /\ pc' = [pc EXCEPT ![c] = "done"]
            /\ resp' = Response("listing_retrieve", u, l, 404, "not found")
            /\ UNCHANGED inst
    /\ UNCHANGED <<listings, queue, otherThanViews>>

\* instance.increment_views(): the UPDATE, for a published instance.
RetrieveIncrement(c) ==
    /\ pc[c] = "loaded"
    /\ inst[c].status = PUBLISHED
    /\ listings' = increment_views(listings, inst[c])
    /\ pc' = [pc EXCEPT ![c] = "updated"]
    /\ UNCHANGED <<inst, queue, resp, otherThanViews>>

\* The refresh that ends increment_views, and record_listing_view_task.delay
RetrieveEnqueue(c) ==
    /\ pc[c] = "updated"
    /\ inst' = [inst EXCEPT ![c] = refresh_from_db(@)]
    /\ queue' = Append(queue, Job("record_listing_view_task",
                                  <<inst[c].pk, inst[c].user>>))
    /\ pc' = [pc EXCEPT ![c] = "enqueued"]
    /\ UNCHANGED <<listings, resp, otherThanViews>>

\* The refresh of the handler and the response; an instance that is not
\* published is answered as loaded.
RetrieveRespond(c) ==
    /\ \/ pc[c] = "enqueued"
       \/ pc[c] = "loaded" /\ inst[c].status # PUBLISHED
    /\ inst' = [inst EXCEPT ![c] =
                   IF pc[c] = "enqueued" THEN refresh_from_db(@) ELSE @]
    /\ resp' = Response("listing_retrieve", inst[c].user, inst[c].pk, 200,
                        "detail")
    /\ pc' = [pc EXCEPT ![c] = "done"]
    /\ UNCHANGED <<listings, queue, otherThanViews>>

\* The requesters of the retrieve clients: an anonymous one and the seller
\* who owns the draft listing.
RetrieveUsers == {NULL, 3}

InitViews == InitInquiry

NextViews ==
    \/ \E c \in 1..NumClients, u \in RetrieveUsers, l \in DOMAIN listings :
           RetrieveLoad(c, u, l)
    \/ \E c \in 1..NumClients : RetrieveIncrement(c)
    \/ \E c \in 1..NumClients : RetrieveEnqueue(c)
    \/ \E c \in 1..NumClients : RetrieveRespond(c)

SpecViews == InitViews /\ [][NextViews]_vars

\* The clients whose retrieve of listing l has completed with a 200.
Completed(l) == {c \in 1..NumClients : pc[c] = "done" /\ inst[c].pk = l}

\* The record_listing_view_task jobs enqueued for listing l.
ViewJobs(l) ==
    {k \in 1..Len(queue) :
        queue[k].task = "record_listing_view_task" /\ queue[k].arg[1] = l}

\* Every retrieve request that was started has completed.
AllComplete == \A c \in 1..NumClients : pc[c] \in {"idle", "done"}

\* C5: when the N retrieve requests issued concurrently on a published
\* listing have all completed, whatever the interleaving of their statements,
\* views_count is its previous value (0) plus N and exactly N
\* record_listing_view_task jobs have been enqueued for the listing.
C5_NoLostViews ==
    AllComplete =>
        \A l \in DOMAIN listings :
            listings[l].status = PUBLISHED =>
                /\ listings[l].views_count = Cardinality(Completed(l))
                /\ Cardinality(ViewJobs(l)) = Cardinality(Completed(l))

\* All the clients have retrieved the published listing 1 and have completed.
C5_Witness ==
    /\ \A c \in 1..NumClients : pc[c] = "done" /\ inst[c].pk = 1
    /\ listings[1].views_count = NumClients
    /\ Len(queue) = NumClients

----------------------------------------------------------------------------
(* apps/accounts: one-time passwords *)

\* value.lower().strip() on the e-mail addresses the requests submit.
Lower(e) ==
    CASE e = "A@X" -> "a@x"
      [] e = "N@X" -> "n@x"
      [] e = "N@x" -> "n@x"
      [] OTHER -> e

\* User.objects.filter(email__iexact=e)
UsersByEmail(e) == {u \in DOMAIN users : Lower(users[u].email) = Lower(e)}

\* The accounts of the OTP and password-reset specifications: the seed
\* accounts, the second seller deactivated (is_active = False).
AccountUsers == [SeedUsers EXCEPT ![3].is_active = FALSE]

\* OneTimePassword.Purpose
REGISTRATION == "registration"
LOGIN == "login"
Purposes == {REGISTRATION, LOGIN}

\* The validity window of a one-time password, in ticks of now.
OtpTtl == 1

\* OneTimePassword.create_otp(email, purpose): the row created, its 6-digit
\* code drawn by the caller.
create_otp(email, purpose, code) ==
    [email |-> email, code |-> code, purpose |-> purpose,
     expires_at |-> now + OtpTtl, used |-> FALSE]

\* OneTimePassword.is_valid: unused and not expired.
otp_is_valid(o) == ~o.used /\ now <= o.expires_at

\* OneTimePassword.mark_used: the row after the call.
otp_mark_used(o) == [o EXCEPT !.used = TRUE]

otherThanOtp == <<listings, inquiries, replies, reports, adminlog, tokens,
                  debug, pc, inst,
        images, categories, verifications, jobs, txn>>

\* POST /auth/otp/request/ : OTPRequestView.post, OTPRequestSerializer.create
OtpRequest(email, purpose, code) ==
    /\ Len(otps) < MaxOtps
    /\ otps' = Append(otps, create_otp(Lower(email), purpose, code))
    /\ queue' = Append(queue, Job("send_otp_email_task",
                                  <<Lower(email), code, purpose>>))
    /\ resp' = Response("otp_request", NULL, Len(otps) + 1, 200,
                        "OTP sent successfully.")
    /\ UNCHANGED <<users, now, otherThanOtp>>

\* The rows OTPVerifySerializer.validate filters: same e-mail (iexact), code
\* and purpose.
OtpMatching(email, code, purpose) ==
    {k \in 1..Len(otps) :
        /\ Lower(otps[k].email) = Lower(email)
        /\ otps[k].code = code
        /\ otps[k].purpose = purpose}

\* .latest("created_at") of a set of rows (rows are held in creation order).
Latest(S) == CHOOSE k \in S : \A j \in S : j <= k

\* OTPVerifySerializer.create that leaves the row as it is.
OtpVerifyCreate_Keeps(tbl, k) == tbl

\* OTPVerifySerializer.create: otp.mark_used()
OtpVerifyCreate(tbl, k) == [tbl EXCEPT ![k] = otp_mark_used(@)]

\* POST /auth/otp/verify/ : OTPVerifySerializer.validate / create and
\* OTPVerifyView.post.  serializer.save() marks the row used before the view
\* looks the account up for the login purpose.
OtpVerify(email, code, purpose) ==
    LET matching == OtpMatching(email, code, purpose)
        k == Latest(matching)
        accounts == UsersByEmail(otps[k].email)
    IN /\ IF matching = {}
          THEN /\ resp' = Response("otp_verify", NULL, NULL, 400,
                                   "Invalid OTP code.")
               /\ UNCHANGED otps
          ELSE IF ~otp_is_valid(otps[k])
          THEN /\ resp' = Response("otp_verify", NULL, k, 400,
                                   "OTP has expired or already used.")
               /\ UNCHANGED otps
          ELSE /\ otps' = OtpVerifyCreate(otps, k)
               /\ resp' =
                    IF purpose # LOGIN
                    THEN Response("otp_verify", NULL, k, 200,
                                  "Proceed to complete registration.")
                    ELSE IF accounts = {}
                    THEN Response("otp_verify", NULL, k, 404,
                                  "No account found for this email.")
                    ELSE IF \E u \in accounts : ~users[u].is_active
                    THEN Response("otp_verify", NULL, k, 403,
                                  "User account is inactive.")
                    ELSE Response("otp_verify", NULL, k, 200,
                                  "Login complete.")
       /\ UNCHANGED <<users, queue, now, otherThanOtp>>

\* The inputs of the OTP requests: the address of an active account (typed
\* in upper case when the code is requested), of a deactivated account and
\* of no account; the code the generator draws and one it never drew.
OtpRequestEmails == {"A@X", "c@x", "z@x"}
OtpVerifyEmails == {"a@x", "c@x", "z@x"}
OtpCodes == {"111111"}
OtpCodeInputs == {"111111", "999999"}

InitOtp ==
    /\ users = AccountUsers
    /\ listings = SeedListings
    /\ inquiries = Empty
    /\ replies = <<>>
    /\ reports = Empty
    /\ adminlog = <<>>
    /\ otps = <<>>
    /\ tokens = <<>>
    /\ queue = <<>>
    /\ now = 1
    /\ debug = FALSE
    /\ resp = NoResponse
    /\ pc = [c \in 1..NumClients |-> "idle"]
    /\ inst = [c \in 1..NumClients |-> NoInstance]
    /\ images = Empty
    /\ categories = Empty
    /\ verifications = Empty
    /\ jobs = Empty
    /\ txn = NoTxn

NextOtp ==
    \/ \E e \in OtpRequestEmails, p \in Purposes, c \in OtpCodes :
           OtpRequest(e, p, c)
    \/ \E e \in OtpVerifyEmails, c \in OtpCodeInputs, p \in Purposes :
           OtpVerify(e, c, p)
    \/ Tick

SpecOtp == InitOtp /\ [][NextOtp]_vars

\* Rows a and b carry the same (email, code, purpose) triple.
SameTriple(a, b) ==
    /\ Lower(a.email) = Lower(b.email)
    /\ a.code = b.code
    /\ a.purpose = b.purpose

\* An active account exists for the address of row o.
HasActiveAccount(o) ==
    /\ UsersByEmail(o.email) # {}
    /\ \A u \in UsersByEmail(o.email) : users[u].is_active

\* A step that handles a verify request (the row it looked up is resp'.obj,
\* the most recent of its triple).  A request on a valid row marks it used
\* and is answered with one of the statuses in answers; a request on a used
\* or expired row, or on no row, is answered 400 and marks nothing.  No step
\* makes a used row unused.
OtpVerifyStep(answers) ==
    /\ now' = now /\ resp'.op = "otp_verify" =>
         IF resp'.obj = NULL
         THEN otps' = otps /\ resp'.status = 400
         ELSE LET k == resp'.obj IN
              /\ \A j \in 1..Len(otps) : j > k => ~SameTriple(otps[j], otps[k])
              /\ IF otp_is_valid(otps[k])
                 THEN /\ otps' = [otps EXCEPT ![k].used = TRUE]
                      /\ resp'.status \in answers
                 ELSE /\ otps' = otps
                      /\ resp'.status = 400
                      /\ resp'.body = "OTP has expired or already used."
    /\ \A j \in 1..Len(otps) : otps[j].used => otps'[j].used

\* C6: for a given (email, code, purpose) triple the first verify request on
\* a valid (unused, unexpired) code succeeds (200) and marks it used, and every
\* later verify request with the same triple fails as expired or already used.
C6_FirstVerifySucceeds == [][OtpVerifyStep({200})]_vars

\* C6, amended: the first verify request on a valid code marks it used, and
\* it succeeds (200) exactly when the purpose is registration or an active
\* account exists for the address; for the login purpose with no account it
\* is answered 404 and with a deactivated account 403, the code being used
\* up all the same.  Every later verify request with the same triple fails
\* as expired or already used.
C6_OtpSingleUse ==
    [][/\ OtpVerifyStep({200, 403, 404})
       /\ now' = now /\ resp'.op = "otp_verify" /\ resp'.obj # NULL
              /\ otp_is_valid(otps[resp'.obj])
            => (resp'.status = 200 <=>
                    \/ otps[resp'.obj].purpose = REGISTRATION
                    \/ HasActiveAccount(otps[resp'.obj]))]_vars

\* A second verify request with the triple of a code that was used before it
\* expired has just been refused.
C6_Witness ==
    /\ resp.op = "otp_verify"
    /\ resp.status = 400
    /\ resp.obj # NULL
    /\ otps[resp.obj].used
    /\ now <= otps[resp.obj].expires_at

----------------------------------------------------------------------------
(* apps/accounts: password reset *)

\* ttl_hours=24 of the request flow; one tick of now stands for 24 hours.
ResetTtl == 1

\* PasswordResetToken.is_expired / is_valid
is_expired(t) == now > t.expires_at
is_valid(t) == ~t.used /\ ~is_expired(t)

\* PasswordResetToken.mark_used: the row after the call.
mark_used(t) == [t EXCEPT !.used = TRUE]

\* PasswordResetToken.create_for_user: the row created.  The secret of the
\* k-th token is k (secrets.token_urlsafe draws a fresh one each time).
create_for_user(user, secret, ttl_hours) ==
    [user |-> user, token |-> secret, used |-> FALSE,
     expires_at |-> now + ttl_hours]

\* User.objects.get(email__iexact=email, is_active=True)
ActiveUsersByEmail(e) == {u \in UsersByEmail(e) : users[u].is_active}

\* The message of every answer to a reset request.
GenericMessage ==
    "If an account with this email exists, a password reset email has been sent."

\* response_data["reset_token"] that echoes the token of every request that
\* created one.
reset_token_echo_Always(reset_token) == reset_token

\* response_data["reset_token"] of PasswordResetRequestView.post: the token
\* when one was created and settings.DEBUG is on, absent (NULL) otherwise.
reset_token_echo(reset_token) ==
    IF reset_token # NULL /\ debug THEN reset_token ELSE NULL

otherThanReset == <<listings, inquiries, replies, reports, adminlog, otps,
                    now, debug, pc, inst,
        images, categories, verifications, jobs, txn>>

\* POST /auth/password/reset/request/ : PasswordResetRequestView.post and
\* PasswordResetRequestSerializer.save
PasswordResetRequest(email) ==
    LET found == ActiveUsersByEmail(email)
        user == CHOOSE u \in found : TRUE
        secret == Len(tokens) + 1
    IN /\ Len(tokens) < MaxTokens
       /\ IF found = {}
          THEN /\ resp' = [Response("reset_request", NULL, email, 202,
                                    GenericMessage)
                              EXCEPT !.token = reset_token_echo(NULL)]
               /\ UNCHANGED <<tokens, queue>>
          ELSE /\ tokens' = Append(tokens,
                                create_for_user(user, secret, ResetTtl))
               /\ queue' = Append(queue,
                                Job("send_password_reset_email_task", secret))
               /\ resp' = [Response("reset_request", NULL, email, 202,
                                    GenericMessage)
                              EXCEPT !.token = reset_token_echo(secret)]
       /\ UNCHANGED <<users, otherThanReset>>

\* validate_password of the platform's strength policy.
WeakPasswords == {"w"}
validate_password(p) == p \notin WeakPasswords

\* PasswordResetToken.objects.get(token=value)
TokensBySecret(value) == {k \in 1..Len(tokens) : tokens[k].token = value}

\* PasswordResetConfirmSerializer.save that sets the password and leaves the
\* token unused.
ResetSave_KeepsToken(k, new_password) ==
    [users |-> [users EXCEPT ![tokens[k].user].password = new_password],
     tokens |-> tokens]

\* PasswordResetConfirmSerializer.save: in one transaction, set_password on
\* the token's user and mark_used on the token.
ResetSave(k, new_password) ==
    [users |-> [users EXCEPT ![tokens[k].user].password = new_password],
     tokens |-> [tokens EXCEPT ![k] = mark_used(@)]]

\* POST /auth/password/reset/confirm/ : PasswordResetConfirmView.post with
\* PasswordResetConfirmSerializer (validate_token, the new_password
\* validator, validate, save).  The body of a 400 is the first of its errors.
PasswordResetConfirm(value, new_password, new_password_confirm) ==
    LET found == TokensBySecret(value)
        k == CHOOSE j \in found : TRUE
        saved == ResetSave(k, new_password)
    IN /\ IF found = {}
          THEN /\ resp' = Response("reset_confirm", NULL, NULL, 400,
                                   "Invalid token.")
               /\ UNCHANGED <<users, tokens, queue>>
          ELSE IF ~is_valid(tokens[k])
          THEN /\ resp' = Response("reset_confirm", NULL, k, 400,
                                   "Token has expired or been used.")
               /\ UNCHANGED <<users, tokens, queue>>
          ELSE IF ~validate_password(new_password)
          THEN /\ resp' = Response("reset_confirm", NULL, k, 400,
                                   "This password is too common.")
               /\ UNCHANGED <<users, tokens, queue>>
          ELSE IF new_password # new_password_confirm
          THEN /\ resp' = Response("reset_confirm", NULL, k, 400,
                                   "Password confirmation doesn't match.")
               /\ UNCHANGED <<users, tokens, queue>>
          ELSE /\ users' = saved.users
               /\ tokens' = saved.tokens
               /\ queue' = Append(queue,
                     Job("send_password_reset_confirmation_email_task",
                         tokens[k].user))
               /\ resp' = Response("reset_confirm", NULL, k, 200,
                                   "Password reset successfully")
       /\ UNCHANGED otherThanReset

\* The inputs of the reset requests: the addresses of two active accounts (one
\* also in upper case), of a deactivated account and of no account; the passwords
\* submitted: two that pass the strength policy and one that does not.
ResetEmails == {"a@x", "A@X", "b@x", "c@x", "z@x"}
NewPasswords == {"p2", "p3"}
PasswordInputs == NewPasswords \cup WeakPasswords

\* The store before the reset requests, in a debug or a production
\* configuration.
InitReset ==
    /\ users = AccountUsers
    /\ listings = SeedListings
    /\ inquiries = Empty
    /\ replies = <<>>
    /\ reports = Empty
    /\ adminlog = <<>>
    /\ otps = <<>>
    /\ tokens = <<>>
    /\ queue = <<>>
    /\ now = 1
    /\ debug \in BOOLEAN
    /\ resp = NoResponse
    /\ pc = [c \in 1..NumClients |-> "idle"]
    /\ inst = [c \in 1..NumClients |-> NoInstance]
    /\ images = Empty
    /\ categories = Empty
    /\ verifications = Empty
    /\ jobs = Empty
    /\ txn = NoTxn

NextReset ==
    \/ \E e \in ResetEmails : PasswordResetRequest(e)
    \/ \E t \in 1..(MaxTokens + 1), p \in PasswordInputs, c \in PasswordInputs :
           PasswordResetConfirm(t, p, c)
    \/ Tick

SpecReset == InitReset /\ [][NextReset]_vars

\* C7: a reset confirm succeeds only with an unused, unexpired token; a
\* successful confirm sets the password of the token's user and marks the
\* token used in the same step; a confirm with a used or expired token fails;
\* a failed confirm leaves passwords and tokens unchanged; a used token is
\* never unused again, so each token changes a password at most once.
C7_ResetTokenSingleUse ==
    [][/\ now' = now /\ resp'.op = "reset_confirm" =>
            /\ IF resp'.status = 200
               THEN /\ resp'.obj # NULL
                    /\ is_valid(tokens[resp'.obj])
                    /\ tokens' = [tokens EXCEPT ![resp'.obj].used = TRUE]
                    /\ \E p \in NewPasswords :
                           users' = [users EXCEPT
                                        ![tokens[resp'.obj].user].password = p]
               ELSE users' = users /\ tokens' = tokens
            /\ resp'.obj # NULL /\ ~is_valid(tokens[resp'.obj])
                   => resp'.status = 400
       /\ \A k \in 1..Len(tokens) : tokens[k].used => tokens'[k].used
       /\ users' # users => resp'.op = "reset_confirm" /\ resp'.status = 200]_vars

\* A token that has changed its user's password has been presented again,
\* before its expiry, and refused.
C7_Witness ==
    /\ resp.op = "reset_confirm"
    /\ resp.status = 400
    /\ resp.obj # NULL
    /\ tokens[resp.obj].used
    /\ ~is_expired(tokens[resp.obj])
    /\ users[tokens[resp.obj].user].password \in NewPasswords

\* C8: in a non-debug configuration the answer to a reset request (status,
\* message, token field) is the same whether or not the address matches an
\* active account: 202, the generic message and no token; a token is created
\* and the e-mail job enqueued exactly when it matches.
C8_NonEnumeration ==
    [][now' = now /\ resp'.op = "reset_request" /\ ~debug =>
          /\ [resp' EXCEPT !.obj = NULL] =
                 Response("reset_request", NULL, NULL, 202, GenericMessage)
          /\ IF ActiveUsersByEmail(resp'.obj) # {}
             THEN /\ Len(tokens') = Len(tokens) + 1
                  /\ tokens'[Len(tokens')].user \in ActiveUsersByEmail(resp'.obj)
                  /\ queue' = Append(queue,
                         Job("send_password_reset_email_task", Len(tokens')))
             ELSE tokens' = tokens /\ queue' = queue]_vars

\* In a non-debug configuration a reset request for the address of an active
\* account has been answered, with a token created for it and none echoed.
C8_Witness ==
    /\ ~debug
    /\ resp.op = "reset_request"
    /\ ActiveUsersByEmail(resp.obj) # {}
    /\ Len(tokens) >= 1
    /\ tokens[Len(tokens)].user \in ActiveUsersByEmail(resp.obj)
    /\ resp.token = NULL

----------------------------------------------------------------------------
(* apps/accounts: registration *)

\* BaseUserManager.normalize_email: the domain part is lower-cased, the
\* local part is kept as typed.
normalize_email(e) ==
    CASE e = "A@X" -> "A@x"
      [] e = "N@X" -> "N@x"
      [] OTHER -> e

\* The role field the ModelSerializer builds for User.role: a ChoiceField
\* over User.Role.choices.
RoleChoices == Roles

\* The password stored by set_password(None).
UnusablePassword == "!"

\* UniqueValidator of the email field: an exact match on the stored column.
EmailTaken(email) == \E u \in DOMAIN users : users[u].email = email

\* UserRegistrationSerializer.validate: a used registration code for the
\* address whose expiry has not passed.
otp_valid(email) ==
    \E k \in 1..Len(otps) :
        /\ Lower(otps[k].email) = Lower(email)
        /\ otps[k].purpose = REGISTRATION
        /\ otps[k].used
        /\ otps[k].expires_at >= now

\* UserRegistrationSerializer.validate: the password rules; TRUE when the
\* attributes are accepted.
RegistrationPasswordOk(email, password, password_confirm) ==
    IF otp_valid(email)
    THEN password # "" =>
             password = password_confirm /\ validate_password(password)
    ELSE /\ password # ""
         /\ password = password_confirm
         /\ validate_password(password)

\* UserManager.create_user / _create_user: the row saved.
create_user(email, password, role) ==
    [email |-> normalize_email(email), role |-> role, is_active |-> TRUE,
     is_staff |-> FALSE, is_verified |-> FALSE,
     password |-> IF password = "" THEN UnusablePassword ELSE password]

otherThanRegister == <<listings, inquiries, replies, reports, adminlog,
                       otps, tokens, now, debug, pc, inst,
        images, categories, verifications, jobs, txn>>

\* POST /auth/register/ : UserRegistrationViewSet.create, field validation
\* of UserRegistrationSerializer, validate, create and perform_create.
Register(email, full_name, role, password, password_confirm) ==
    LET pk == NextId(users)
    IN /\ Cardinality(DOMAIN users) <
              Cardinality(DOMAIN SeedUsers) + MaxRegistrations
       /\ IF \/ full_name = ""
             \/ role \notin RoleChoices
             \/ EmailTaken(email)
             \/ ~RegistrationPasswordOk(email, password, password_confirm)
          THEN /\ resp' = Response("register", NULL, NULL, 400, "invalid")
               /\ UNCHANGED <<users, queue>>
          ELSE IF EmailTaken(normalize_email(email))
          THEN /\ resp' = Response("register", NULL, NULL, 500,
                                   "IntegrityError")
               /\ UNCHANGED <<users, queue>>
          ELSE /\ users' = users @@ (pk :> create_user(email, password, role))
               /\ queue' = Append(queue, Job("send_welcome_email_task", pk))
               /\ resp' = Response("register", NULL, pk, 201, "created")
       /\ UNCHANGED otherThanRegister

\* The inputs of the registration requests: the address of an existing
\* account, a new address typed in lower and in upper case; a present and a
\* blank full name; every role of User.Role and a value outside it; a blank,
\* a strong and a weak password.
RegisterEmails == {"a@x", "n@x", "N@X"}
FullNames == {"", "F"}
RoleInputs == Roles \cup {"root"}
RegisterPasswords == {"", "p2", "w"}
RegisterConfirms == {"", "p2"}

\* The registration code verified for n@x before the registration request,
\* if any.
VerifiedOtp == [create_otp("n@x", REGISTRATION, "111111") EXCEPT !.used = TRUE]

InitRegister ==
    /\ users = SeedUsers
    /\ listings = SeedListings
    /\ inquiries = Empty
    /\ replies = <<>>
    /\ reports = Empty
    /\ adminlog = <<>>
    /\ now = 1
    /\ otps \in {<<>>, <<VerifiedOtp>>}
    /\ tokens = <<>>
    /\ queue = <<>>
    /\ debug = FALSE
    /\ resp = NoResponse
    /\ pc = [c \in 1..NumClients |-> "idle"]
    /\ inst = [c \in 1..NumClients |-> NoInstance]
    /\ images = Empty
    /\ categories = Empty
    /\ verifications = Empty
    /\ jobs = Empty
    /\ txn = NoTxn

NextRegister ==
    \/ \E e \in RegisterEmails, f \in FullNames, r \in RoleInputs,
          p \in RegisterPasswords, c \in RegisterConfirms :
           Register(e, f, r, p, c)
    \/ Tick

SpecRegister == InitRegister /\ [][NextRegister]_vars

\* The users created by self-registration.
Registered == DOMAIN users \ DOMAIN SeedUsers

\* C9: a registration request whose role is admin or super_admin is rejected
\* and creates no user, whatever the other fields contain; hence no user
\* created by self-registration has the role admin or super_admin.
C9_NoAdminSelfRegistration ==
    /\ [](\A u \in Registered : ~is_admin_user(u))
    /\ [][\A e \in RegisterEmails, f \in FullNames, r \in {ADMIN, SUPER_ADMIN},
            p \in RegisterPasswords, c \in RegisterConfirms :
              Register(e, f, r, p, c) =>
                  /\ resp'.status = 400
                  /\ users' = users
                  /\ queue' = queue]_vars

-----------------------------------------------------------------------------
\* apps/accounts and apps/admin_panel: service provider verification

\* VerificationRequest.Status
APPROVED == "approved"
REJECTED == "rejected"
REQUIRES_MORE_INFO == "requires_more_info"

\* AdminActionLog.ActionType.USER_VERIFIED
USER_VERIFIED == "user_verified"

\* The accounts of the moderation specifications: the seed accounts, a
\* service provider and a super admin.
StaffUsers ==
    CreatorUsers @@
    (6 :> [email |-> "f@x", role |-> SUPER_ADMIN, is_active |-> TRUE,
           is_staff |-> TRUE, is_verified |-> FALSE,
           password |-> "p1"])

\* IsAdminOrSuperAdmin.has_permission
IsAdminOrSuperAdmin(u) == users[u].role \in {ADMIN, SUPER_ADMIN}

\* The admin_notes a moderation request may carry.
AdminNotes == {"", "ok"}

\* VerificationRequest.objects.create(user=...): the row saved, with the
\* defaults of the model.
NewVerificationRequest(u) ==
    [user |-> u, status |-> PENDING, reviewed_by |-> NULL,
     reviewed_at |-> NULL, admin_notes |-> ""]

\* VerificationRequest.approve without the write to the owner.
approve_RequestOnly(vs, us, pk, admin_user, notes, t) ==
    [verifications |->
         [vs EXCEPT ![pk] = [@ EXCEPT !.status = APPROVED,
                                      !.reviewed_by = admin_user,
                                      !.reviewed_at = t,
                                      !.admin_notes = notes]],
     users |-> us]

\* VerificationRequest.approve: the request row and the owner's row written.
approve(vs, us, pk, admin_user, notes, t) ==
    [verifications |->
         [vs EXCEPT ![pk] = [@ EXCEPT !.status = APPROVED,
                                      !.reviewed_by = admin_user,
                                      !.reviewed_at = t,
                                      !.admin_notes = notes]],
     users |-> [us EXCEPT ![vs[pk].user].is_verified = TRUE]]

\* VerificationRequest.reject: the request row written.
reject(vs, pk, admin_user, notes, t) ==
    [vs EXCEPT ![pk] = [@ EXCEPT !.status = REJECTED,
                                 !.reviewed_by = admin_user,
                                 !.reviewed_at = t,
                                 !.admin_notes = notes]]

otherThanVerification == <<listings, inquiries, replies, reports, otps,
                           tokens, now, debug, pc, inst, images, categories,
                           jobs, txn>>

\* POST /accounts/verification/request/ : VerificationViewSet.request_verification
request_verification(u) ==
    /\ Cardinality(DOMAIN verifications) < MaxVerifications
    /\ IF users[u].role # SERVICE_PROVIDER
       THEN /\ resp' = Response("request_verification", u, NULL, 400,
                                "Only service providers can request verification")
            /\ UNCHANGED <<verifications, queue>>
       ELSE IF users[u].is_verified
       THEN /\ resp' = Response("request_verification", u, NULL, 400,
                                "User is already verified")
            /\ UNCHANGED <<verifications, queue>>
       ELSE LET id == Cardinality(DOMAIN verifications) + 1 IN
            /\ verifications' = verifications @@
                                (id :> NewVerificationRequest(u))
            /\ queue' = Append(queue,
                               Job("notify_admins_verification_request", id))
            /\ resp' = Response("request_verification", u, id, 201, "")
    /\ UNCHANGED <<users, adminlog>>
    /\ UNCHANGED otherThanVerification

\* POST /admin-panel/verifications/{pk}/approve/ :
\* VerificationAdminViewSet.approve_request
approve_request(u, pk, notes) ==
    /\ IF ~IsAdminOrSuperAdmin(u)
       THEN /\ resp' = Response("approve_request", u, pk, 403, "")
            /\ UNCHANGED <<verifications, users, queue, adminlog>>
       ELSE IF pk \notin DOMAIN verifications
       THEN /\ resp' = Response("approve_request", u, pk, 404, "")
            /\ UNCHANGED <<verifications, users, queue, adminlog>>
       ELSE IF verifications[pk].status # PENDING
       THEN /\ resp' = Response("approve_request", u, pk, 400,
                                "Only pending requests can be approved.")
            /\ UNCHANGED <<verifications, users, queue, adminlog>>
       ELSE LET out == approve(verifications, users, pk, u, notes, now) IN
            /\ verifications' = out.verifications
            /\ users' = out.users
            /\ queue' = Append(queue,
                               Job("send_verification_decision_email", pk))
            /\ adminlog' = Append(adminlog,
                                  log_action(u, USER_VERIFIED, "Approved"))
            /\ resp' = Response("approve_request", u, pk, 200,
                                "Verification approved successfully.")
    /\ UNCHANGED otherThanVerification

\* POST /admin-panel/verifications/{pk}/reject/ :
\* VerificationAdminViewSet.reject_request
reject_request(u, pk, notes) ==
    /\ IF ~IsAdminOrSuperAdmin(u)
       THEN /\ resp' = Response("reject_request", u, pk, 403, "")
            /\ UNCHANGED <<verifications, queue, adminlog>>
       ELSE IF pk \notin DOMAIN verifications
       THEN /\ resp' = Response("reject_request", u, pk, 404, "")
            /\ UNCHANGED <<verifications, queue, adminlog>>
       ELSE IF verifications[pk].status # PENDING
       THEN /\ resp' = Response("reject_request", u, pk, 400,
                                "Only pending requests can be rejected.")
            /\ UNCHANGED <<verifications, queue, adminlog>>
       ELSE /\ verifications' = reject(verifications, pk, u, notes, now)
            /\ queue' = Append(queue,
                               Job("send_verification_decision_email", pk))
            /\ adminlog' = Append(adminlog,
                                  log_action(u, USER_VERIFIED, "Rejected"))
            /\ resp' = Response("reject_request", u, pk, 200,
                                "Verification rejected successfully.")
    /\ UNCHANGED users
    /\ UNCHANGED otherThanVerification

\* The requesters of the verification specification: an admin, a service
\* provider and a super admin.
VerificationUsers == {4, 5, 6}

\* The primary keys a moderation request may name.
VerificationIds == 1..MaxVerifications

InitVerification ==
    /\ users = StaffUsers
    /\ listings = SeedListings
    /\ inquiries = Empty
    /\ replies = <<>>
    /\ reports = Empty
    /\ adminlog = <<>>
    /\ otps = <<>>
    /\ tokens = <<>>
    /\ queue = <<>>
    /\ now = 1
    /\ debug = FALSE
    /\ resp = NoResponse
    /\ pc = [c \in 1..NumClients |-> "idle"]
    /\ inst = [c \in 1..NumClients |-> NoInstance]
    /\ images = Empty
    /\ categories = Empty
    /\ verifications = Empty
    /\ jobs = Empty
    /\ txn = NoTxn

NextVerification ==
    \/ \E u \in VerificationUsers : request_verification(u)
    \/ \E u \in VerificationUsers, pk \in VerificationIds,
          n \in AdminNotes : approve_request(u, pk, n)
    \/ \E u \in VerificationUsers, pk \in VerificationIds,
          n \in AdminNotes : reject_request(u, pk, n)

SpecVerification == InitVerification /\ [][NextVerification]_vars

\* C15: approve or reject on a request whose status is not pending returns
\* an error and leaves the request and the owner's is_verified unchanged;
\* approve on a pending request sets it approved, stamps the reviewer and
\* sets the owner's is_verified to true; reject on a pending request sets it
\* rejected, stamps the reviewer and does not change is_verified.
C15_ModerationOnlyOnPending ==
    [][LET u == resp'.user
           pk == resp'.obj
           moderation == /\ resp'.op \in {"approve_request", "reject_request"}
                         /\ pk \in DOMAIN verifications
       IN
       /\ (moderation /\ verifications[pk].status # PENDING)
          => /\ resp'.status >= 400
             /\ verifications' = verifications
             /\ users' = users
       /\ (/\ moderation
           /\ resp'.op = "approve_request"
           /\ IsAdminOrSuperAdmin(u)
           /\ verifications[pk].status = PENDING)
          => /\ resp'.status = 200
             /\ verifications'[pk].status = APPROVED
             /\ verifications'[pk].reviewed_by = u
             /\ users'[verifications[pk].user].is_verified
       /\ (/\ moderation
           /\ resp'.op = "reject_request"
           /\ IsAdminOrSuperAdmin(u)
           /\ verifications[pk].status = PENDING)
          => /\ resp'.status = 200
             /\ verifications'[pk].status = REJECTED
             /\ verifications'[pk].reviewed_by = u
             /\ users' = users]_vars

\* An approved and a rejected request exist, the owner is verified, and the
\* last request was a moderation refused because its target was not pending.
C15_Witness ==
    /\ \E a, r \in DOMAIN verifications :
           /\ verifications[a].status = APPROVED
           /\ verifications[r].status = REJECTED
           /\ users[verifications[a].user].is_verified
    /\ resp.op \in {"approve_request", "reject_request"}
    /\ resp.status = 400

-----------------------------------------------------------------------------
\* apps/accounts: role updates through UserRoleUpdateSerializer

\* The data of a role update: the fields sent and their values.
RoleData(given, role, is_verified) ==
    [given |-> given, role |-> role, is_verified |-> is_verified]

\* UserRoleUpdateSerializer.validate_role: TRUE when the value passes.
UserRoleUpdate_validate_role(request_user, value) ==
    ~(value \in {ADMIN, SUPER_ADMIN} /\ request_user.role # SUPER_ADMIN)

\* The ChoiceField built for User.role, then validate_role.
RoleFieldValid(request_user, a) ==
    "role" \in a.given =>
        /\ a.role \in RoleChoices
        /\ UserRoleUpdate_validate_role(request_user, a.role)

\* What update answers when it raises ValidationError.
Refused == [refused |-> TRUE]

\* ModelSerializer.update: the fields sent are written to the row.
ModelSerializerUpdate(instance, a) ==
    [instance EXCEPT
        !.role = IF "role" \in a.given THEN a.role ELSE @,
        !.is_verified = IF "is_verified" \in a.given
                        THEN a.is_verified ELSE @]

\* UserRoleUpdateSerializer.update without its two checks.
UserRoleUpdate_update_Unchecked(instance, a, request_user) ==
    ModelSerializerUpdate(instance, a)

\* UserRoleUpdateSerializer.update: the row to save, or Refused.
UserRoleUpdate_update(instance, a, request_user) ==
    LET new_role == IF "role" \in a.given THEN a.role ELSE instance.role IN
    IF new_role \in {ADMIN, SUPER_ADMIN} /\ request_user.role # SUPER_ADMIN
    THEN Refused
    ELSE IF instance.role = SUPER_ADMIN /\ request_user.role # SUPER_ADMIN
    THEN Refused
    ELSE ModelSerializerUpdate(instance, a)

\* User.can_manage_user
can_manage_user(self, user) ==
    IF self.role = SUPER_ADMIN THEN TRUE
    ELSE IF self.role = ADMIN THEN user.role \notin {ADMIN, SUPER_ADMIN}
    ELSE FALSE

otherThanRole == <<listings, inquiries, replies, reports, adminlog, otps,
                   tokens, queue, now, debug, pc, inst, images, categories,
                   verifications, jobs, txn>>

\* A role update of user t requested by user u:
\* UserRoleUpdateSerializer(t, data, context).is_valid(), then save().
UserRoleUpdate(u, t, a) ==
    /\ IF ~RoleFieldValid(users[u], a)
       THEN /\ resp' = Response("role_update", u, t, 400, "role")
            /\ users' = users
       ELSE LET out == UserRoleUpdate_update(users[t], a, users[u]) IN
            IF out = Refused
            THEN /\ resp' = Response("role_update", u, t, 400, "")
                 /\ users' = users
            ELSE /\ users' = [users EXCEPT ![t] = out]
                 /\ resp' = Response("role_update", u, t, 200, "")
    /\ UNCHANGED otherThanRole

\* The requesters and the targets of the role specification: a seller, an
\* admin and a super admin.
RoleUsers == {2, 4, 6}

\* The role values sent: a plain role, the two admin roles and a value that
\* is not a choice.
RoleValues == {BUYER, ADMIN, SUPER_ADMIN, "root"}

\* The role updates sent: a role, the verification flag, or both.
RoleUpdates ==
    {RoleData({"role"}, r, FALSE) : r \in RoleValues} \cup
    {RoleData({"is_verified"}, BUYER, TRUE)} \cup
    {RoleData({"role", "is_verified"}, r, TRUE) : r \in {BUYER, ADMIN}}

InitRole == InitVerification

NextRole ==
    \E u \in RoleUsers, t \in RoleUsers, a \in RoleUpdates :
        UserRoleUpdate(u, t, a)

SpecRole == InitRole /\ [][NextRole]_vars

\* The role the update asks for: the role sent, else the target's own.
NewRole(t, a) == IF "role" \in a.given THEN a.role ELSE users[t].role

\* C16: a role update issued by a requester who is not super_admin is
\* rejected, leaving the target unchanged, whenever the new role is admin or
\* super_admin or the target's current role is super_admin; a super_admin
\* requester can do either; hence no step gives a user an admin role or
\* changes a super_admin's row unless the requester is a super_admin.
C16_AdminPromotionBoundary ==
    [][/\ \A a \in RoleUpdates :
            LET u == resp'.user
                t == resp'.obj
            IN
            (resp'.op = "role_update" /\ UserRoleUpdate(u, t, a)) =>
               /\ (/\ users[u].role # SUPER_ADMIN
                   /\ \/ NewRole(t, a) \in {ADMIN, SUPER_ADMIN}
                      \/ users[t].role = SUPER_ADMIN)
                  => /\ resp'.status = 400
                     /\ users' = users
               /\ (/\ users[u].role = SUPER_ADMIN
                   /\ "role" \in a.given
                   /\ a.role \in RoleChoices)
                  => /\ resp'.status = 200
                     /\ users'[t].role = a.role
       /\ \A t \in DOMAIN users :
            (/\ users'[t] # users[t]
             /\ \/ users'[t].role \in {ADMIN, SUPER_ADMIN}
                \/ users[t].role = SUPER_ADMIN)
            => users[resp'.user].role = SUPER_ADMIN]_vars

\* A super admin was demoted and another user promoted to admin, and the last
\* request, from a requester who is not super admin, was refused.
C16_Witness ==
    /\ users[6].role # SUPER_ADMIN
    /\ \E t \in RoleUsers \ {4, 6} : users[t].role \in {ADMIN, SUPER_ADMIN}
    /\ resp.op = "role_update"
    /\ resp.status = 400
    /\ users[resp.user].role # SUPER_ADMIN

-----------------------------------------------------------------------------
\* apps/inquiries: inquiry creation against listings whose status changes

NextInquiryCreate ==
    \/ \E u \in DOMAIN users, l \in 1..MaxListings, n \in AttachmentCounts :
           InquiryCreate(u, l, n)
    \/ \E u \in DOMAIN users, l \in DOMAIN listings : ListingPublish(u, l)
    \/ \E u \in DOMAIN users, l \in DOMAIN listings : ListingArchive(u, l)

SpecInquiryCreate == InitInquiry /\ [][NextInquiryCreate]_vars

\* C18: inquiry creation is rejected, creating no inquiry, no attachment and
\* enqueuing no notification job, when the requester is the owner of the
\* target listing or when the target listing is not in status published.
C18_InquiryCreateRejected ==
    [][\A l \in DOMAIN listings, n \in AttachmentCounts :
         LET u == resp'.user IN
         (/\ resp'.op = "inquiry_create"
          /\ InquiryCreate(u, l, n)
          /\ \/ listings[l].user = u
             \/ listings[l].status # PUBLISHED)
         => /\ resp'.status = 400
            /\ inquiries' = inquiries
            /\ queue' = queue]_vars

\* The owner of a published listing asked for an inquiry on it and was
\* refused; no inquiry and no job exists.
C18_Witness ==
    /\ resp.op = "inquiry_create"
    /\ resp.status = 400
    /\ resp.obj \in DOMAIN listings
    /\ listings[resp.obj].status = PUBLISHED
    /\ listings[resp.obj].user = resp.user
    /\ inquiries = Empty
    /\ queue = <<>>

-----------------------------------------------------------------------------
\* apps/admin_panel: the audit log written by the moderation handlers

InitAudit == InitVerification

\* The requesters of the audit specification: the staff admin and a service
\* provider, who is not staff.
AuditUsers == {4, 5}

NextAudit ==
    \/ \E u \in Reporters : ReportCreate(u, "listing", 1)
    \/ \E u \in AuditUsers, r \in DOMAIN reports : ReportResolve(u, r)
    \/ \E u \in AuditUsers, r \in DOMAIN reports : ReportDismiss(u, r)
    \/ \E sel \in SUBSET (DOMAIN reports) : BulkMarkResolved(4, sel)
    \/ \E u \in AuditUsers : request_verification(u)
    \/ \E u \in AuditUsers, pk \in VerificationIds :
           approve_request(u, pk, "")
    \/ \E u \in AuditUsers, pk \in VerificationIds :
           reject_request(u, pk, "")

SpecAudit == InitAudit /\ [][NextAudit]_vars

\* The moderation handlers whose effect the audit log records.
AuditedOps ==
    {"report_resolve", "report_dismiss", "approve_request", "reject_request"}

\* C21: the audit log is append-only: each resolve, dismiss, approve or
\* reject action that moderates its report or request appends exactly one
\* AdminActionLog entry naming the acting admin, and no operation modifies
\* or deletes an entry that already exists.
C21_AuditLogAppendOnly ==
    [][/\ Len(adminlog') >= Len(adminlog)
       /\ SubSeq(adminlog', 1, Len(adminlog)) = adminlog
       /\ (/\ resp'.op \in AuditedOps
           /\ \/ reports' # reports
              \/ verifications' # verifications)
          => /\ Len(adminlog') = Len(adminlog) + 1
             /\ adminlog'[Len(adminlog')].admin_user = resp'.user]_vars

-----------------------------------------------------------------------------
\* apps/listings: the direction of status changes made by the owner

\* The position of a status on draft -> published -> {archived, flagged,
\* suspended}.
ListingStage(st) ==
    IF st = DRAFT THEN 0 ELSE IF st = PUBLISHED THEN 1 ELSE 2

\* The handlers open to the owner of a listing.
OwnerOps == {"listing_update", "listing_publish", "listing_archive"}

\* C22: no operation available to the listing's owner (update, publish,
\* archive) moves a listing from archived, flagged or suspended back to draft
\* or published, or from published back to draft.
C22_StatusOnlyForward ==
    [][\A l \in DOMAIN listings :
         (/\ resp'.op \in OwnerOps
          /\ resp'.user = listings[l].user
          /\ resp'.obj = l)
         => ListingStage(listings'[l].status) >= ListingStage(listings[l].status)]_vars

-----------------------------------------------------------------------------
\* apps/accounts: what a refused OTP verification leaves behind

\* C23: a verify request that ends in an error response (unknown code,
\* expired or used code, or login purpose with no account or an inactive
\* account for the email) leaves the used flag of every OTP unchanged.
C23_OtpConsumedOnlyOnSuccess ==
    [][(/\ resp'.op = "otp_verify"
        /\ resp'.status >= 400
        /\ Len(otps') = Len(otps))
       => \A k \in 1..Len(otps) : otps'[k].used = otps[k].used]_vars

-----------------------------------------------------------------------------
\* apps/accounts: the valid reset tokens of a user

\* The reset tokens of user u that are unused and unexpired.
ValidTokens(u) ==
    {k \in 1..Len(tokens) : tokens[k].user = u /\ is_valid(tokens[k])}

\* C24: for every user, at any time at most one password-reset token is
\* valid (unused and unexpired); a new token created on a reset request
\* invalidates the user's earlier tokens.
C24_SingleActiveResetToken ==
    \A u \in DOMAIN users : Cardinality(ValidTokens(u)) <= 1

-----------------------------------------------------------------------------
\* apps/accounts/tasks.py and emails.py: the email jobs and their retries

\* @shared_task(bind=True, max_retries=3, default_retry_delay=10)
MaxRetries == 3

\* The three tasks declared with that policy.
EmailTasks == {"send_welcome_email_task", "send_password_reset_email_task",
               "send_password_reset_confirmation_email_task"}

\* What an execution may meet: the store and the email transport, each up
\* or down.
Health == {"up", "down"}

\* The state of a job the worker has not taken yet.
Queued == [state |-> "queued", executions |-> 0, retries |-> 0,
           result |-> "none"]

JobState(j) == IF j \in DOMAIN jobs THEN jobs[j] ELSE Queued

\* User.objects.get(pk=user_id) / PasswordResetToken.objects.get(pk=...):
\* TRUE when the row exists.
RecordExists(job) ==
    IF job.task = "send_password_reset_email_task"
    THEN job.arg \in 1..Len(tokens)
    ELSE job.arg \in DOMAIN users

\* EmailService.send_welcome_email / send_password_reset_email /
\* send_password_reset_confirmation_email: the body runs inside try/except
\* Exception, so a transport failure is logged and answered with False.
EmailServiceSend(transport) == IF transport = "up" THEN "sent" ELSE "failed"

\* self.retry(exc=exc): a retry is scheduled while the retries made are
\* fewer than max_retries; after that the exception is raised and the job is
\* given up.
Retry(st) ==
    IF st.retries < MaxRetries
    THEN [st EXCEPT !.state = "retry", !.retries = @ + 1]
    ELSE [st EXCEPT !.state = "abandoned"]

\* One execution of an email task by the worker.  The lookup raises when
\* the store is down (caught by `except Exception`, which retries), the
\* DoesNotExist branch logs a warning and returns, and otherwise the
\* EmailService call returns and the task logs that the email was sent.
EmailTaskRun(st, job, store, transport) ==
    LET run == [st EXCEPT !.executions = @ + 1] IN
    IF store = "down" THEN Retry(run)
    ELSE IF ~RecordExists(job)
    THEN [run EXCEPT !.state = "done", !.result = "missing"]
    ELSE [run EXCEPT !.state = "done",
                     !.result = EmailServiceSend(transport)]

otherThanJobs == <<users, listings, inquiries, replies, reports, adminlog,
                   otps, tokens, queue, now, debug, resp, pc, inst, images,
                   categories, verifications, txn>>

\* The worker executes the job at position j of the queue, for the first
\* time or as a retry.
RunEmailJob(j, store, transport) ==
    /\ j \in 1..Len(queue)
    /\ queue[j].task \in EmailTasks
    /\ JobState(j).state \in {"queued", "retry"}
    /\ jobs' = (j :> EmailTaskRun(JobState(j), queue[j], store, transport))
               @@ jobs
    /\ UNCHANGED otherThanJobs

\* The jobs left with the broker by a registration (user 1), a reset request
\* (token 1 of user 1), a reset confirm (user 2), and a registration whose
\* user row has since been deleted in the admin console (user 9).
InitEmailJobs ==
    /\ users = SeedUsers
    /\ listings = SeedListings
    /\ inquiries = Empty
    /\ replies = <<>>
    /\ reports = Empty
    /\ adminlog = <<>>
    /\ otps = <<>>
    /\ now = 1
    /\ tokens = <<create_for_user(1, 1, ResetTtl)>>
    /\ queue = <<Job("send_welcome_email_task", 1),
                 Job("send_password_reset_email_task", 1),
                 Job("send_password_reset_confirmation_email_task", 2),
                 Job("send_welcome_email_task", 9)>>
    /\ debug = FALSE
    /\ resp = NoResponse
    /\ pc = [c \in 1..NumClients |-> "idle"]
    /\ inst = [c \in 1..NumClients |-> NoInstance]
    /\ images = Empty
    /\ categories = Empty
    /\ verifications = Empty
    /\ jobs = Empty
    /\ txn = NoTxn

NextEmailJobs ==
    \E j \in 1..Len(queue), store \in Health, transport \in Health :
        RunEmailJob(j, store, transport)

SpecEmailJobs == InitEmailJobs /\ [][NextEmailJobs]_vars

\* C26: when the email transport fails during an execution of one of the
\* three email jobs, the job is re-executed, at most 3 times, and is then
\* abandoned, so every job terminates after at most 4 executions; an
\* execution that finds its user or token record missing ends the job
\* without any retry.
C26_EmailJobRetryPolicy ==
    /\ [](\A j \in DOMAIN jobs : jobs[j].executions <= MaxRetries + 1)
    /\ [][\A j \in 1..Len(queue) :
            /\ (RunEmailJob(j, "up", "down") /\ RecordExists(queue[j]))
               => jobs'[j].state \in {"retry", "abandoned"}
            /\ (RunEmailJob(j, "up", "up") /\ ~RecordExists(queue[j]))
               => jobs'[j].state = "done"]_vars

-----------------------------------------------------------------------------
\* apps/listings: a retrieve whose view recording raises

\* The `except Exception as exc` branch of ListingViewSet.retrieve:
\* logger.exception(...) names a logger the module never defines or imports,
\* so the branch raises NameError and the request is answered 500.
RetrieveExcept(c) ==
    /\ resp' = Response("listing_retrieve", inst[c].user, inst[c].pk, 500,
                        "NameError")
    /\ pc' = [pc EXCEPT ![c] = "done"]

\* instance.increment_views() raises (the store refuses the UPDATE).
RetrieveIncrementFails(c) ==
    /\ pc[c] = "loaded"
    /\ inst[c].status = PUBLISHED
    /\ RetrieveExcept(c)
    /\ UNCHANGED <<listings, inst, queue, otherThanViews>>

\* record_listing_view_task.delay(...) raises (the broker is unreachable),
\* after the counter was incremented.
RetrieveEnqueueFails(c) ==
    /\ pc[c] = "updated"
    /\ RetrieveExcept(c)
    /\ UNCHANGED <<listings, inst, queue, otherThanViews>>

NextViewFailure ==
    \/ \E c \in 1..NumClients, u \in RetrieveUsers, l \in 1..MaxListings :
           RetrieveLoad(c, u, l)
    \/ \E c \in 1..NumClients : RetrieveIncrement(c)
    \/ \E c \in 1..NumClients : RetrieveEnqueue(c)
    \/ \E c \in 1..NumClients : RetrieveRespond(c)
    \/ \E c \in 1..NumClients : RetrieveIncrementFails(c)
    \/ \E c \in 1..NumClients : RetrieveEnqueueFails(c)

SpecViewFailure == InitViews /\ [][NextViewFailure]_vars

\* C25: if the view-counter increment or the enqueue of the
\* record-listing-view job raises while a published listing is retrieved,
\* the request still completes successfully and returns the listing details:
\* every retrieve that loaded its listing is answered 200.
C25_ViewRecordingNeverFails ==
    [][\A c \in 1..NumClients :
         (pc[c] \in {"loaded", "updated", "enqueued"} /\ pc'[c] = "done")
         => /\ resp'.op = "listing_retrieve"
            /\ resp'.status = 200]_vars

-----------------------------------------------------------------------------
\* apps/inquiries: who sees an inquiry

\* The users the claim lets see inquiry q: its sender, its recipient and the
\* admins.
MaySee(u, q) == q.from_user = u \/ q.to_user = u \/ is_admin_user(u)

\* C27: a user can list or retrieve an inquiry if and only if the user is
\* its sender, its recipient, or has an admin role; any other user's
\* retrieve is answered as not found or forbidden and changes no state.
C27_InquiryVisibility ==
    /\ [](\A u \in DOMAIN users, i \in DOMAIN inquiries :
              i \in InquiryQueryset(u) <=> MaySee(u, inquiries[i]))
    /\ [][resp'.op = "inquiry_retrieve" =>
            LET u == resp'.user
                i == resp'.obj
            IN /\ resp'.status = 200 <=> MaySee(u, inquiries[i])
               /\ resp'.status # 200 =>
                     /\ resp'.status \in {403, 404}
                     /\ inquiries' = inquiries
                     /\ queue' = queue]_vars


-----------------------------------------------------------------------------
\* apps/listings, apps/inquiries: the inquiries counter of a listing

\* Listing.increment_inquiries: UPDATE ... SET inquiries_count =
\* inquiries_count + 1 issued against the store.  No handler of the
\* repository calls it.
increment_inquiries(ls, l) ==
    [ls EXCEPT ![l].inquiries_count = @ + 1]

InquiriesCreatedFor(l) ==
    Cardinality({i \in DOMAIN inquiries : inquiries[i].listing = l})

\* C28: each successful inquiry creation for a listing increases its
\* inquiries_count by exactly one through the store-level increment, so in
\* every reachable state inquiries_count of a listing equals the number of
\* inquiries created for it.
C28_InquiriesCountMatches ==
    /\ [][(resp'.op = "inquiry_create" /\ resp'.status = 201) =>
            LET l == inquiries'[resp'.obj].listing
            IN listings' = increment_inquiries(listings, l)]_vars
    /\ [](\A l \in DOMAIN listings :
              listings[l].inquiries_count = InquiriesCreatedFor(l))


-----------------------------------------------------------------------------
\* apps/inquiries: the notification job and the request transaction

otherThanInquiryTxn == <<users, listings, replies, reports, adminlog, otps,
                         tokens, now, debug, pc, inst, images, categories,
                         verifications, jobs>>

\* InquiryViewSet.create up to the end of InquiryCreateSerializer.create:
\* validation, then inside `with transaction.atomic()` the INSERT of the
\* inquiry and its attachments, and send_inquiry_notification_task.delay
\* called while the transaction is still open.  The row is held by the open
\* transaction, invisible to other connections; the job is with the broker.
InquiryCreateBegin(u, l, files) ==
    /\ ~txn.open
    /\ Cardinality(DOMAIN inquiries) < MaxInquiries
    /\ IF validate_listing(u, l)
       THEN LET id == NextId(inquiries) IN
            /\ txn' = [open |-> TRUE, pk |-> id, user |-> u,
                       row |-> [listing |-> l, from_user |-> u,
                                to_user |-> listings[l].user,
                                status |-> PENDING, read_at |-> NULL,
                                replied_at |-> NULL, attachments |-> files]]
            /\ queue' = Append(queue,
                               Job("send_inquiry_notification_task", id))
            /\ UNCHANGED resp
       ELSE /\ resp' = Response("inquiry_create", u, l, 400, "invalid")
            /\ UNCHANGED <<txn, queue>>
    /\ UNCHANGED <<inquiries, otherThanInquiryTxn>>

\* The exit of the atomic block: the transaction commits, the row becomes
\* visible, and the view answers 201.
InquiryCreateCommit ==
    /\ txn.open
    /\ inquiries' = inquiries @@ (txn.pk :> txn.row)
    /\ txn' = NoTxn
    /\ resp' = Response("inquiry_create", txn.user, txn.pk, 201, "created")
    /\ UNCHANGED <<queue, otherThanInquiryTxn>>

\* send_inquiry_notification_task: Inquiry.objects.get(pk=inquiry_id) on
\* the worker's own connection sees committed rows only; DoesNotExist
\* returns without notifying, and a failure of msg.send is swallowed.  The
\* task is a plain shared_task, with no retry.
send_inquiry_notification_task(st, job, transport) ==
    LET run == [st EXCEPT !.executions = @ + 1] IN
    IF job.arg \notin DOMAIN inquiries
    THEN [run EXCEPT !.state = "done", !.result = "missing"]
    ELSE [run EXCEPT !.state = "done",
                     !.result = IF transport = "up" THEN "sent"
                                ELSE "failed"]

\* The worker executes the notification job at position j of the queue.
RunInquiryNotification(j, transport) ==
    /\ j \in 1..Len(queue)
    /\ queue[j].task = "send_inquiry_notification_task"
    /\ JobState(j).state = "queued"
    /\ jobs' = (j :> send_inquiry_notification_task(JobState(j), queue[j],
                                                    transport)) @@ jobs
    /\ UNCHANGED otherThanJobs

NextInquiryTxn ==
    \/ \E u \in DOMAIN users, l \in 1..MaxListings, n \in AttachmentCounts :
           InquiryCreateBegin(u, l, n)
    \/ InquiryCreateCommit
    \/ \E j \in 1..Len(queue), transport \in Health :
           RunInquiryNotification(j, transport)

SpecInquiryTxn == InitInquiry /\ [][NextInquiryTxn]_vars

\* C29: for every successfully created inquiry, the notification job
\* enqueued for it finds the inquiry row when it executes, in every
\* interleaving of the worker with the commit of the creating request: no
\* job of a created inquiry has returned without notifying because the row
\* was missing.
C29_NotificationFindsInquiry ==
    \A j \in DOMAIN jobs :
        (/\ queue[j].task = "send_inquiry_notification_task"
         /\ queue[j].arg \in DOMAIN inquiries)
        => jobs[j].result # "missing"


-----------------------------------------------------------------------------
\* apps/accounts: the operations that write a password

\* AbstractBaseUser.check_password: never TRUE for an account whose
\* password is unusable.
check_password(u, value) ==
    /\ users[u].password # UnusablePassword
    /\ users[u].password = value

\* AbstractBaseUser.set_password followed by save.
set_password(u, new_password) ==
    [users EXCEPT ![u].password = new_password]

\* permissions.IsAuthenticated behind JWT authentication: the token of an
\* inactive account is refused.
IsAuthenticated(u) == u \in DOMAIN users /\ users[u].is_active

otherThanPassword == <<listings, inquiries, replies, reports, adminlog,
                       otps, tokens, queue, now, debug, pc, inst, images,
                       categories, verifications, jobs, txn>>

\* POST /auth/set-password/ : SetPasswordView.post with
\* SetPasswordSerializer (the new_password validator, validate, save).
SetPassword(u, new_password, new_password_confirm) ==
    /\ IF ~IsAuthenticated(u)
       THEN /\ resp' = Response("set_password", u, u, 401, "unauthorized")
            /\ UNCHANGED users
       ELSE IF ~validate_password(new_password)
       THEN /\ resp' = Response("set_password", u, u, 400,
                                "This password is too common.")
            /\ UNCHANGED users
       ELSE IF new_password # new_password_confirm
       THEN /\ resp' = Response("set_password", u, u, 400,
                                "Passwords do not match.")
            /\ UNCHANGED users
       ELSE /\ users' = set_password(u, new_password)
            /\ resp' = Response("set_password", u, u, 200,
                                "Password has been set successfully.")
    /\ UNCHANGED otherThanPassword

\* POST /auth/password/change/ : PasswordChangeView.post with
\* PasswordChangeSerializer (validate_old_password, the new_password
\* validator, validate, save).
PasswordChange(u, old_password, new_password, new_password_confirm) ==
    /\ IF ~IsAuthenticated(u)
       THEN /\ resp' = Response("password_change", u, u, 401,
                                "unauthorized")
            /\ UNCHANGED users
       ELSE IF ~check_password(u, old_password)
       THEN /\ resp' = Response("password_change", u, u, 400,
                                "Old password is incorrect.")
            /\ UNCHANGED users
       ELSE IF ~validate_password(new_password)
       THEN /\ resp' = Response("password_change", u, u, 400,
                                "This password is too common.")
            /\ UNCHANGED users
       ELSE IF new_password # new_password_confirm
       THEN /\ resp' = Response("password_change", u, u, 400,
                                "New password confirmation doesn't match.")
            /\ UNCHANGED users
       ELSE /\ users' = set_password(u, new_password)
            /\ resp' = Response("password_change", u, u, 200,
                                "Password changed successfully")
    /\ UNCHANGED otherThanPassword

\* The accounts: the buyer created through the OTP flow without a password,
\* a seller with a password, and the deactivated seller.
PasswordUsers == [AccountUsers EXCEPT ![1].password = UnusablePassword]
PasswordActors == {1, 2, 3}
OldPasswords == {"p1", "p2", UnusablePassword}
PasswordEmails == {"a@x", "b@x"}

InitPassword ==
    /\ users = PasswordUsers
    /\ listings = SeedListings
    /\ inquiries = Empty
    /\ replies = <<>>
    /\ reports = Empty
    /\ adminlog = <<>>
    /\ otps = <<>>
    /\ tokens = <<>>
    /\ queue = <<>>
    /\ now = 1
    /\ debug = FALSE
    /\ resp = NoResponse
    /\ pc = [c \in 1..NumClients |-> "idle"]
    /\ inst = [c \in 1..NumClients |-> NoInstance]
    /\ images = Empty
    /\ categories = Empty
    /\ verifications = Empty
    /\ jobs = Empty
    /\ txn = NoTxn

NextPassword ==
    \/ \E u \in PasswordActors, p \in PasswordInputs, c \in PasswordInputs :
           SetPassword(u, p, c)
    \/ \E u \in PasswordActors, old \in OldPasswords,
          p \in PasswordInputs, c \in PasswordInputs :
           PasswordChange(u, old, p, c)
    \/ \E e \in PasswordEmails : PasswordResetRequest(e)
    \/ \E t \in 1..(MaxTokens + 1), p \in PasswordInputs, c \in PasswordInputs :
           PasswordResetConfirm(t, p, c)

SpecPassword == InitPassword /\ [][NextPassword]_vars

\* C30: the password of an account that already has one is replaced only by
\* a password change that verified the current password or by a reset
\* confirm that consumed a valid token of the account; set-password
\* establishes a password only for an account that has none.
C30_PasswordReplacedOnlyWithProof ==
    [][/\ \A u \in DOMAIN users :
            (/\ users[u].password # UnusablePassword
             /\ users'[u].password # users[u].password)
            => \/ /\ resp'.op = "password_change"
                  /\ resp'.status = 200
                  /\ resp'.user = u
                  /\ \E old \in OldPasswords, p \in PasswordInputs :
                         /\ check_password(u, old)
                         /\ PasswordChange(u, old, p, p)
               \/ /\ resp'.op = "reset_confirm"
                  /\ resp'.status = 200
                  /\ tokens[resp'.obj].user = u
                  /\ is_valid(tokens[resp'.obj])
                  /\ tokens'[resp'.obj].used
       /\ (resp'.op = "set_password" /\ resp'.status = 200)
            => users[resp'.user].password = UnusablePassword]_vars

====
